---- MODULE Spec2Model ----
(***************************************************************************)
(* Model of the slide player (src/src/player.rs) together with the part of *)
(* the content graph it depends on (src/src/model.rs, src/src/editors.rs)  *)
(* and the backgrounds with their pictures (src/src/images.rs).            *)
(*                                                                         *)
(* One frame of the host engine runs every system of the Update stage once,*)
(* in an order the engine does not fix: the systems are registered with    *)
(* add_system and no ordering constraint.  `ran` is the set of systems that *)
(* have already run in the current frame; EndFrame closes the frame,       *)
(* applies the deferred commands and draws the next frame's time delta.    *)
(*                                                                         *)
(* A system whose run changes nothing is not given a step: an EventReader  *)
(* loop with no unread event, handle_mouse with no pointer event, a window *)
(* nobody clicks.  Such a system counts as having run at the point of the  *)
(* frame where it had nothing to do; update_state and render, which read   *)
(* the clock, take a step in every frame, except while the player's slide  *)
(* is missing and their run would leave every variable as it is (Idle).    *)
(* Time is counted in milliseconds.                                        *)
(***************************************************************************)
EXTENDS Integers, Sequences, FiniteSets, TLC

VARIABLES
    slides,         \* entity -> Slide record or NoSlide (the Query<&Slide>)
    backgrounds,    \* the Background entities, each with its BackgroundData or None
    workers,        \* url -> number of request_image threads still fetching it
    receiver,       \* the results sent on the image channel and not yet received
    bg_events,      \* Events<CrudEvent<Background>> its event_handler has not read
    delete_bg_dialog, \* the DeleteBgDialog resource (its background name), or NoDialog
    events,         \* Events<CrudEvent<Slide>> not yet seen by every reader
    cursor,         \* per EventReader: number of entries of `events` consumed
    carried,        \* entries of `events` sent in an earlier frame
    inputs,         \* number of gestures the user may still make
    rename_dialog,  \* the RenameDialog<Slide> resource, or NoDialog
    delete_dialog,  \* the DeleteSlideDialog resource (its slide name), or NoDialog
    add_prompt,     \* the AddSlidePrompt resource is present
    editors,        \* editor entity -> SlideEditor [target, ttl], or NoEditor
    missing_passes, \* render passes in a row that found no slide for the content shown
    commands,       \* deferred Commands, applied at the end of the stage
    player,         \* the Player resource
    state,          \* the PlayerState resource
    display,        \* the three Text2d sections and the last render outcome
    ran,            \* systems that have run in the current frame
    delta,          \* time.delta() of the current frame in ms, once it was read
    mouse_events,   \* the pointer events handle_mouse read in the current frame
    started,        \* the first frame is over
    crashed         \* a system panicked

vars == <<slides, backgrounds, workers, receiver, bg_events, delete_bg_dialog,
          events, cursor, carried, inputs, rename_dialog,
          delete_dialog, add_prompt, editors, missing_passes,
          commands, player, state, display, ran, delta,
          mouse_events, started, crashed>>

-----------------------------------------------------------------------------
(* Bounds of the model *)

MaxInputs == 2
NumEntities == 2
MaxEdits == 4
MaxEditors == 2

Entities == 1..NumEntities
EditorIds == 1..MaxEditors
Names == {"Living", "Hall", "Den"}
Urls == {"u_room", "u_attic"}
Deltas == {400, 2000}
\* pointer heights: halfway between the first two actions, nearer the second,
\* and far from both
PointerYs == {-115, -120, 300}

\* the CursorMoved events of one frame: none, or one pointer position
CursorMovedInputs == {<<>>} \cup {<<y>> : y \in PointerYs}

NoMouse == [moves |-> <<>>, click |-> FALSE]

\* the pointer events of one frame in which there are some
MouseInputs ==
    {in \in [moves : CursorMovedInputs, click : BOOLEAN] : in.moves # <<>> \/ in.click}

\* the frame's time delta while no system has read it, or all have
NoDelta == 0 - 1

\* Option::None of an index
NoIndex == 0 - 1

None == "None"
NoBackground == [absent |-> TRUE]
NoSlide == [absent |-> TRUE]
NoDialog == [open |-> FALSE]
NoEditor == [closed |-> TRUE]
NoTimer == [none |-> TRUE]

-----------------------------------------------------------------------------
(* Program constants (ms) *)

BG_FADE_IN == 1500
BG_FADE_OUT == 1000
TEXT_FADE_OUT == 500
WAIT_PERIOD == 1000
RENDER_PERIOD == 100
pauses == 100
action_pause == 100

-----------------------------------------------------------------------------
(* f32 fractions: NaN, or a reduced pair <<numerator, denominator>> *)

RECURSIVE Gcd(_, _)
Gcd(a, b) == IF b = 0 THEN a ELSE Gcd(b, a % b)

NaN == <<0, 0>>
Zero == <<0, 1>>
One == <<1, 1>>

\* n / d as the float division computes it (0.0 / 0.0 is NaN)
Div(n, d) ==
    IF d = 0 THEN NaN
    ELSE LET g == Gcd(n, d) IN <<n \div g, d \div g>>

\* 1.0 - f
OneMinus(f) == IF f = NaN THEN NaN ELSE Div(f[2] - f[1], f[2])

\* (n as f32 * f) as usize : the cast truncates, and sends NaN to 0
Scale(n, f) == IF f = NaN THEN 0 ELSE (n * f[1]) \div f[2]

IsFrac(f) == f[2] # 0
Leq(f, g) == IsFrac(f) /\ IsFrac(g) /\ f[1] * g[2] <= g[1] * f[2]

-----------------------------------------------------------------------------
(* bevy Timer *)

TimerFromSeconds(duration, repeating) ==
    [elapsed |-> 0, duration |-> duration, repeating |-> repeating,
     finished |-> FALSE]

Percent(timer) == Div(timer.elapsed, timer.duration)

\* variant: a timer of no duration never finishes
Tick_ZeroStalls(timer, d) ==
    IF (~timer.repeating /\ timer.finished) \/ timer.duration = 0
    THEN [timer |-> timer, just_finished |-> FALSE]
    ELSE LET e == timer.elapsed + d
             fin == e >= timer.duration
         IN  IF ~fin
             THEN [timer |-> [timer EXCEPT !.elapsed = e, !.finished = FALSE],
                   just_finished |-> FALSE]
             ELSE IF timer.repeating
             THEN [timer |-> [timer EXCEPT !.elapsed = e % timer.duration,
                                           !.finished = TRUE],
                   just_finished |-> TRUE]
             ELSE [timer |-> [timer EXCEPT !.elapsed = timer.duration,
                                           !.finished = TRUE],
                   just_finished |-> TRUE]

\* Timer::tick followed by just_finished(): [timer, just_finished]
Tick(timer, d) ==
    IF ~timer.repeating /\ timer.finished
    THEN [timer |-> timer, just_finished |-> FALSE]
    ELSE LET e == timer.elapsed + d
             fin == e >= timer.duration
         IN  IF ~fin
             THEN [timer |-> [timer EXCEPT !.elapsed = e, !.finished = FALSE],
                   just_finished |-> FALSE]
             ELSE IF timer.repeating
             THEN [timer |-> [timer EXCEPT
                                !.elapsed = IF timer.duration = 0 THEN 0
                                            ELSE e % timer.duration,
                                !.finished = TRUE],
                   just_finished |-> TRUE]
             ELSE [timer |-> [timer EXCEPT !.elapsed = timer.duration,
                                           !.finished = TRUE],
                   just_finished |-> TRUE]

-----------------------------------------------------------------------------
(* Slides *)

MkSlide(name, description, background, actions) ==
    [name |-> name, description |-> description, background |-> background,
     actions |-> actions]

MkAction(text, target_slide) == [text |-> text, target_slide |-> target_slide]

\* slides.iter().find(|slide| slide.name == name)
FindSlide(name) ==
    IF \E e \in Entities : slides[e] # NoSlide /\ slides[e].name = name
    THEN slides[CHOOSE e \in Entities :
                    /\ slides[e] # NoSlide /\ slides[e].name = name
                    /\ \A f \in Entities :
                          (slides[f] # NoSlide /\ slides[f].name = name) => e <= f]
    ELSE NoSlide

\* (slide.description.len() as f32 / MEAN_WORD_LENGTH) / MEAN_READING_SPEED_WPS,
\* with MEAN_WORD_LENGTH = 4.7 and MEAN_READING_SPEED_WPS = 3.6 * 5.0, in ms
TextFadeInDuration(slide) == (Len(slide.description) * 10000) \div 846

-----------------------------------------------------------------------------
(* Player::update_state, one match arm per operator; each yields the new   *)
(* [player, state]                                                         *)

Phase(tag, timer) == [tag |-> tag, timer |-> timer]

\* variant: the time left over when the fade-in ends runs on in the pause
ArmFadeInBg_CarryOver(p, st, slide, d) ==
    LET t == Tick(st.timer, d)
        p1 == [p EXCEPT !.bg_opacity = Percent(st.timer)]
        left == st.timer.elapsed + d - st.timer.duration
    IN  IF t.just_finished
        THEN [player |-> [p1 EXCEPT !.bg_opacity = One],
              state |-> Phase("PauseBetweenBgAndText",
                              Tick(TimerFromSeconds(pauses, FALSE), left).timer)]
        ELSE [player |-> p1, state |-> Phase("FadeInBg", t.timer)]

ArmFadeInBg(p, st, slide, d) ==
    LET t == Tick(st.timer, d)
        p1 == [p EXCEPT !.bg_opacity = Percent(st.timer)]
    IN  IF t.just_finished
        THEN [player |-> [p1 EXCEPT !.bg_opacity = One],
              state |-> Phase("PauseBetweenBgAndText", TimerFromSeconds(pauses, FALSE))]
        ELSE [player |-> p1, state |-> Phase("FadeInBg", t.timer)]

\* variant: the pause after the background jumps straight to the actions
ArmPauseBetweenBgAndText_SkipText(p, st, slide, d) ==
    LET t == Tick(st.timer, d)
    IN  IF t.just_finished
        THEN [player |-> p,
              state |-> Phase("FadeInActions",
                              TimerFromSeconds(Len(slide.actions) * action_pause, FALSE))]
        ELSE [player |-> p, state |-> Phase("PauseBetweenBgAndText", t.timer)]

ArmPauseBetweenBgAndText(p, st, slide, d) ==
    LET t == Tick(st.timer, d)
    IN  IF t.just_finished
        THEN [player |-> p,
              state |-> Phase("FadeInText",
                              TimerFromSeconds(TextFadeInDuration(slide), FALSE))]
        ELSE [player |-> p, state |-> Phase("PauseBetweenBgAndText", t.timer)]

\* variant: the finished fade-in leaves the fraction where the timer had it
ArmFadeInText_NoSnap(p, st, slide, d) ==
    LET t == Tick(st.timer, d)
        p1 == [p EXCEPT !.percentage_of_text_shown = Percent(st.timer)]
    IN  IF t.just_finished
        THEN [player |-> p1,
              state |-> Phase("PauseBetweenTextAndActions",
                              TimerFromSeconds(pauses, FALSE))]
        ELSE [player |-> p1, state |-> Phase("FadeInText", t.timer)]

\* variant: the fade-in shows the part of the text still to come
ArmFadeInText_Remaining(p, st, slide, d) ==
    LET t == Tick(st.timer, d)
        p1 == [p EXCEPT !.percentage_of_text_shown = OneMinus(Percent(st.timer))]
    IN  IF t.just_finished
        THEN [player |-> [p1 EXCEPT !.percentage_of_text_shown = One],
              state |-> Phase("PauseBetweenTextAndActions",
                              TimerFromSeconds(pauses, FALSE))]
        ELSE [player |-> p1, state |-> Phase("FadeInText", t.timer)]

ArmFadeInText(p, st, slide, d) ==
    LET t == Tick(st.timer, d)
        p1 == [p EXCEPT !.percentage_of_text_shown = Percent(st.timer)]
    IN  IF t.just_finished
        THEN [player |-> [p1 EXCEPT !.percentage_of_text_shown = One],
              state |-> Phase("PauseBetweenTextAndActions",
                              TimerFromSeconds(pauses, FALSE))]
        ELSE [player |-> p1, state |-> Phase("FadeInText", t.timer)]

ArmPauseBetweenTextAndActions(p, st, slide, d) ==
    LET t == Tick(st.timer, d)
    IN  IF t.just_finished
        THEN [player |-> p,
              state |-> Phase("FadeInActions",
                              TimerFromSeconds(Len(slide.actions) * action_pause, FALSE))]
        ELSE [player |-> p, state |-> Phase("PauseBetweenTextAndActions", t.timer)]

\* variant: the finished fade-in leaves the fraction where the timer had it
ArmFadeInActions_NoSnap(p, st, slide, d) ==
    LET t == Tick(st.timer, d)
        p1 == [p EXCEPT !.amount_of_actions_shown = Percent(st.timer)]
    IN  IF t.just_finished
        THEN [player |-> p1,
              state |-> Phase("WaitingForInput", TimerFromSeconds(WAIT_PERIOD, TRUE))]
        ELSE [player |-> p1, state |-> Phase("FadeInActions", t.timer)]

ArmFadeInActions(p, st, slide, d) ==
    LET t == Tick(st.timer, d)
        p1 == [p EXCEPT !.amount_of_actions_shown = Percent(st.timer)]
    IN  IF t.just_finished
        THEN [player |-> [p1 EXCEPT !.amount_of_actions_shown = One],
              state |-> Phase("WaitingForInput", TimerFromSeconds(WAIT_PERIOD, TRUE))]
        ELSE [player |-> p1, state |-> Phase("FadeInActions", t.timer)]

\* variant: the wait gives up when its timer comes round
ArmWaitingForInput_Timeout(p, st, slide, d) ==
    LET t == Tick(st.timer, d)
    IN  [player |-> [p EXCEPT !.dashes = Scale(4, Percent(st.timer))],
         state |-> IF t.just_finished THEN [tag |-> "GotInput", timer |-> NoTimer]
                   ELSE Phase("WaitingForInput", t.timer)]

ArmWaitingForInput(p, st, slide, d) ==
    LET t == Tick(st.timer, d)
    IN  [player |-> [p EXCEPT !.dashes = Scale(4, Percent(st.timer))],
         state |-> Phase("WaitingForInput", t.timer)]

\* variant: the click already hides the text
ArmGotInput_HideText(p, st, slide, d) ==
    [player |-> [p EXCEPT !.percentage_of_text_shown = Zero],
     state |-> Phase("FadeOutTextAndActions", TimerFromSeconds(TEXT_FADE_OUT, FALSE))]

ArmGotInput(p, st, slide, d) ==
    [player |-> p,
     state |-> Phase("FadeOutTextAndActions", TimerFromSeconds(TEXT_FADE_OUT, FALSE))]

\* variant: the finished fade-out leaves the fractions where the timer had them
ArmFadeOutTextAndActions_NoReset(p, st, slide, d) ==
    LET t == Tick(st.timer, d)
        p1 == [p EXCEPT !.percentage_of_text_shown = OneMinus(Percent(st.timer)),
                        !.amount_of_actions_shown = OneMinus(Percent(st.timer))]
    IN  IF t.just_finished
        THEN [player |-> p1,
              state |-> Phase("FadeOutBg", TimerFromSeconds(BG_FADE_OUT, FALSE))]
        ELSE [player |-> p1, state |-> Phase("FadeOutTextAndActions", t.timer)]

ArmFadeOutTextAndActions(p, st, slide, d) ==
    LET t == Tick(st.timer, d)
        p1 == [p EXCEPT !.percentage_of_text_shown = OneMinus(Percent(st.timer)),
                        !.amount_of_actions_shown = OneMinus(Percent(st.timer))]
    IN  IF t.just_finished
        THEN [player |-> [p1 EXCEPT !.percentage_of_text_shown = Zero,
                                    !.amount_of_actions_shown = Zero],
              state |-> Phase("FadeOutBg", TimerFromSeconds(BG_FADE_OUT, FALSE))]
        ELSE [player |-> p1, state |-> Phase("FadeOutTextAndActions", t.timer)]

\* variant: the finished fade-out forgets to move on to the next slide
ArmFadeOutBg_KeepSlide(p, st, slide, d) ==
    LET t == Tick(st.timer, d)
        p1 == [p EXCEPT !.bg_opacity = OneMinus(Percent(st.timer))]
    IN  IF t.just_finished
        THEN [player |-> [p1 EXCEPT !.bg_opacity = Zero],
              state |-> Phase("FadeInBg", TimerFromSeconds(BG_FADE_IN, FALSE))]
        ELSE [player |-> p1, state |-> Phase("FadeOutBg", t.timer)]

ArmFadeOutBg(p, st, slide, d) ==
    LET t == Tick(st.timer, d)
        p1 == [p EXCEPT !.bg_opacity = OneMinus(Percent(st.timer))]
    IN  IF t.just_finished
        THEN [player |-> [p1 EXCEPT !.bg_opacity = Zero,
                                    !.current_slide = p.next_slide],
              state |-> Phase("FadeInBg", TimerFromSeconds(BG_FADE_IN, FALSE))]
        ELSE [player |-> p1, state |-> Phase("FadeOutBg", t.timer)]

\* the body of update_state once the current slide has been found
UpdateStateMatch(p, st, slide, d) ==
    CASE st.tag = "FadeInBg" -> ArmFadeInBg(p, st, slide, d)
      [] st.tag = "PauseBetweenBgAndText" -> ArmPauseBetweenBgAndText(p, st, slide, d)
      [] st.tag = "FadeInText" -> ArmFadeInText(p, st, slide, d)
      [] st.tag = "PauseBetweenTextAndActions" ->
            ArmPauseBetweenTextAndActions(p, st, slide, d)
      [] st.tag = "FadeInActions" -> ArmFadeInActions(p, st, slide, d)
      [] st.tag = "WaitingForInput" -> ArmWaitingForInput(p, st, slide, d)
      [] st.tag = "GotInput" -> ArmGotInput(p, st, slide, d)
      [] st.tag = "FadeOutTextAndActions" -> ArmFadeOutTextAndActions(p, st, slide, d)
      [] st.tag = "FadeOutBg" -> ArmFadeOutBg(p, st, slide, d)

-----------------------------------------------------------------------------
(* Pointer hit test of Player::handle_mouse *)

\* SlideEditor::new_for: passes an editor survives without its slide
GRACE_TICKS == 3
ACTION_ORIGIN == -100
OFFSET_BETWEEN_ACTIONS == 30
MIN_DISTANCE == 30

Abs(x) == IF x < 0 THEN -x ELSE x

\* (action_origin - i as f32 * offset_between_actions - position.y).abs() as i32
Distance(i, y) == Abs(ACTION_ORIGIN - i * OFFSET_BETWEEN_ACTIONS - y)

\* variant: of the nearest actions the one declared last
Hovered_LastNearest(slide, y) ==
    LET near == {i \in 0..(Len(slide.actions) - 1) : Distance(i, y) < MIN_DISTANCE}
    IN  IF near = {} THEN NoIndex
        ELSE CHOOSE i \in near :
                \A j \in near : Distance(i, y) < Distance(j, y)
                                \/ (Distance(i, y) = Distance(j, y) /\ i >= j)

\* distances.into_iter().min_by_key(..).map(|(i, _)| i): the first minimum
Hovered(slide, y) ==
    LET near == {i \in 0..(Len(slide.actions) - 1) : Distance(i, y) < MIN_DISTANCE}
    IN  IF near = {} THEN NoIndex
        ELSE CHOOSE i \in near :
                \A j \in near : Distance(i, y) < Distance(j, y)
                                \/ (Distance(i, y) = Distance(j, y) /\ i <= j)

\* variant: the click always takes the first action of the slide
ClickOn_FirstAction(p, st, slide) ==
    IF p.hovering_action = NoIndex
    THEN [player |-> p, state |-> st, panicked |-> FALSE]
    ELSE IF p.hovering_action >= Len(slide.actions)
    THEN [player |-> p, state |-> st, panicked |-> TRUE]
    ELSE [player |-> [p EXCEPT !.next_slide = slide.actions[1].target_slide],
          state |-> [tag |-> "GotInput", timer |-> NoTimer],
          panicked |-> FALSE]

\* the MouseButtonInput loop: [player, state, panicked]
ClickOn(p, st, slide) ==
    IF p.hovering_action = NoIndex
    THEN [player |-> p, state |-> st, panicked |-> FALSE]
    ELSE IF p.hovering_action >= Len(slide.actions)
    THEN [player |-> p, state |-> st, panicked |-> TRUE]
    ELSE [player |-> [p EXCEPT !.next_slide =
                                  slide.actions[p.hovering_action + 1].target_slide],
          state |-> [tag |-> "GotInput", timer |-> NoTimer],
          panicked |-> FALSE]

\* the CursorMoved loop: each position overwrites hovering_action
RECURSIVE CursorMoves(_, _, _)
CursorMoves(p, slide, moves) ==
    IF moves = <<>> THEN p
    ELSE CursorMoves([p EXCEPT !.hovering_action = Hovered(slide, Head(moves))],
                     slide, Tail(moves))

\* handle_mouse with the frame's pointer events: the CursorMoved positions
\* and whether a left press arrived
HandleMouse(p, st, slide, moves, click) ==
    LET p1 == CursorMoves(p, slide, moves)
    IN  IF click THEN ClickOn(p1, st, slide)
        ELSE [player |-> p1, state |-> st, panicked |-> FALSE]

-----------------------------------------------------------------------------
(* CrudEvent<Slide> and its readers *)

Renamed(old, new) == [kind |-> "Renamed", old |-> old, new |-> new]
Deleted(name) == [kind |-> "Deleted", name |-> name]
Updated(res) == [kind |-> "Updated", res |-> res]
Created(res) == [kind |-> "Created", res |-> res]

Readers == {"event_handler", "update_references", "handle_renames",
            "SlideEditor_handle_renames"}

\* the readers that act on Renamed events only
RenameReaders == {"update_references", "handle_renames",
                  "SlideEditor_handle_renames"}

\* the events an EventReader has not seen yet
Unread(reader) == SubSeq(events, cursor[reader] + 1, Len(events))

\* the reader has an event to act on
RenameUnread(reader) ==
    \E i \in 1..Len(Unread(reader)) : Unread(reader)[i].kind = "Renamed"

\* CrudPlugin::event_handler on one event: the slides after it
HandleEvent(sl, e) ==
    CASE e.kind = "Renamed" ->
            [x \in Entities |->
                IF sl[x] # NoSlide /\ sl[x].name = e.old
                THEN [sl[x] EXCEPT !.name = e.new] ELSE sl[x]]
      [] e.kind = "Updated" ->
            [x \in Entities |->
                IF sl[x] # NoSlide /\ sl[x].name = e.res.name THEN e.res ELSE sl[x]]
      [] OTHER -> sl

\* the commands event_handler queues for one event, given the slides it sees
HandleEventCommands(sl, e) ==
    CASE e.kind = "Created" -> <<[op |-> "spawn", res |-> e.res]>>
      [] e.kind = "Deleted" ->
            <<[op |-> "despawn",
               entities |-> {x \in Entities : sl[x] # NoSlide /\ sl[x].name = e.name}]>>
      [] OTHER -> <<>>

RECURSIVE EventHandlerFold(_, _, _)
EventHandlerFold(sl, cmds, evs) ==
    IF evs = <<>> THEN [slides |-> sl, commands |-> cmds]
    ELSE EventHandlerFold(HandleEvent(sl, Head(evs)),
                          cmds \o HandleEventCommands(sl, Head(evs)),
                          Tail(evs))

\* update_references on one event
UpdateReferences(sl, e) ==
    IF e.kind = "Renamed"
    THEN [x \in Entities |->
            IF sl[x] = NoSlide THEN sl[x]
            ELSE [sl[x] EXCEPT !.actions =
                    [i \in 1..Len(sl[x].actions) |->
                        IF sl[x].actions[i].target_slide = e.old
                        THEN [sl[x].actions[i] EXCEPT !.target_slide = e.new]
                        ELSE sl[x].actions[i]]]]
    ELSE sl

RECURSIVE UpdateReferencesFold(_, _)
UpdateReferencesFold(sl, evs) ==
    IF evs = <<>> THEN sl
    ELSE UpdateReferencesFold(UpdateReferences(sl, Head(evs)), Tail(evs))

\* Player::handle_renames on one event
HandleRename(p, e) ==
    IF e.kind = "Renamed" /\ p.current_slide = e.old
    THEN [p EXCEPT !.current_slide = e.new]
    ELSE p

RECURSIVE HandleRenamesFold(_, _)
HandleRenamesFold(p, evs) ==
    IF evs = <<>> THEN p
    ELSE HandleRenamesFold(HandleRename(p, Head(evs)), Tail(evs))

-----------------------------------------------------------------------------
(* Frame bookkeeping *)

FreeEntities(sl) == {e \in Entities : sl[e] = NoSlide}
FreeEditorIds(eds) == {k \in EditorIds : eds[k] = NoEditor}

\* the least element of a non-empty set of numbers
Lowest(S) == CHOOSE x \in S : \A y \in S : x <= y

NoEditors == \A k \in EditorIds : editors[k] = NoEditor

\* the systems that take a step in every frame
Clocked == {"update_state", "render"}

CanRun(sys) == ~crashed /\ sys \notin ran

Ran(sys) == ran' = ran \cup {sys}

\* time.delta(): the frame has one delta, drawn when the first of the
\* clocked systems reads it and dropped when the last has read it
FrameDeltas ==
    IF delta # NoDelta THEN {delta}
    ELSE IF ~started THEN {0}   \* Time::delta() is zero until the second update
    ELSE Deltas
ReadDelta(d) == delta' = IF Clocked \subseteq ran' THEN NoDelta ELSE d

\* a step that consumes a gesture of the user (pointer, click, key)
Gesture == inputs > 0 /\ inputs' = inputs - 1

update_state ==
    /\ CanRun("update_state")
    /\ Ran("update_state")
    /\ \E d \in FrameDeltas :
          /\ ReadDelta(d)
          /\ LET slide == FindSlide(player.current_slide)
             IN  IF slide = NoSlide
                 THEN UNCHANGED <<player, state>>
                 ELSE LET r == UpdateStateMatch(player, state, slide, d)
                      IN  player' = r.player /\ state' = r.state
    /\ UNCHANGED <<slides, backgrounds, workers, receiver,
                   bg_events, delete_bg_dialog,
                   events, cursor, carried, inputs,
                   rename_dialog, commands, display, mouse_events, crashed,
                   started,
                   delete_dialog, add_prompt, editors, missing_passes>>

handle_mouse ==
    /\ CanRun("handle_mouse")
    /\ Gesture
    /\ Ran("handle_mouse")
    /\ LET slide == FindSlide(player.current_slide)
       IN  IF slide = NoSlide
           THEN UNCHANGED <<player, state, mouse_events, crashed>>
           ELSE \E in \in MouseInputs :
                   LET r == HandleMouse(player, state, slide, in.moves, in.click)
                   IN  /\ mouse_events' = in
                       /\ player' = r.player
                       /\ state' = r.state
                       /\ crashed' = r.panicked
    /\ UNCHANGED <<slides, backgrounds, workers, receiver,
                   bg_events, delete_bg_dialog,
                   events, cursor, carried,
                   rename_dialog, commands, display, delta, started,
                   delete_dialog, add_prompt, editors, missing_passes>>

handle_renames ==
    /\ CanRun("handle_renames")
    /\ RenameUnread("handle_renames")
    /\ Ran("handle_renames")
    /\ player' = HandleRenamesFold(player, Unread("handle_renames"))
    /\ cursor' = [cursor EXCEPT !["handle_renames"] = Len(events)]
    /\ UNCHANGED <<slides, backgrounds, workers, receiver,
                   bg_events, delete_bg_dialog,
                   events, carried, inputs,
                   rename_dialog, commands, state, display, delta,
                   mouse_events, crashed, started,
                   delete_dialog, add_prompt, editors, missing_passes>>

event_handler ==
    /\ CanRun("event_handler")
    /\ Unread("event_handler") # <<>>
    /\ Ran("event_handler")
    /\ LET r == EventHandlerFold(slides, commands, Unread("event_handler"))
       IN  slides' = r.slides /\ commands' = r.commands
    /\ cursor' = [cursor EXCEPT !["event_handler"] = Len(events)]
    /\ UNCHANGED <<backgrounds, workers, receiver,
                   bg_events, delete_bg_dialog,
                   events, carried, inputs, rename_dialog,
                   player, state, display, delta, mouse_events, crashed,
                   started,
                   delete_dialog, add_prompt, editors, missing_passes>>

update_references ==
    /\ CanRun("update_references")
    /\ RenameUnread("update_references")
    /\ Ran("update_references")
    /\ slides' = UpdateReferencesFold(slides, Unread("update_references"))
    /\ cursor' = [cursor EXCEPT !["update_references"] = Len(events)]
    /\ UNCHANGED <<backgrounds, workers, receiver,
                   bg_events, delete_bg_dialog,
                   events, carried, inputs, rename_dialog,
                   commands, player, state, display, delta, mouse_events,
                   crashed, started,
                   delete_dialog, add_prompt, editors, missing_passes>>

-----------------------------------------------------------------------------
(* Rendering: convert_background_to_ascii and Player::render *)

ASCII_CHARS == <<".", "^", ",", ":", "_", "=", "~", "+", "O", "o", "*", "#", "&",
                 "%", "B", "@", "$">>

\* intensity_to_ascii(value: u8): step = 255 / n_chars, compared for
\* i in 1..(n_chars - 1)
IntensityToAscii(value) ==
    LET n_chars == Len(ASCII_CHARS)
        step == 255 \div n_chars
        char[v \in 0..255] ==
            LET hits == {i \in 1..(n_chars - 2) : v < step * i}
            IN  IF hits = {} THEN ASCII_CHARS[n_chars]
                ELSE ASCII_CHARS[CHOOSE i \in hits : \A j \in hits : i <= j]
    IN  char[value]

\* pixel_to_intensity
PixelToIntensity(bg, px) ==
    LET cc == bg.color_channels
    IN  IF cc[1] = cc[2] /\ cc[2] = cc[3]
        THEN (px[1] + px[2] + px[3]) \div 3
        ELSE (px[1] * cc[1] + px[2] * cc[2] + px[3] * cc[3]) \div (cc[1] + cc[2] + cc[3])

RECURSIVE Concat(_)
Concat(strs) == IF strs = <<>> THEN "" ELSE Head(strs) \o Concat(Tail(strs))

RECURSIVE Repeat(_, _)
Repeat(str, n) == IF n <= 0 THEN "" ELSE str \o Repeat(str, n - 1)

\* variant: the conversion takes no account of the opacity
ConvertBackgroundToAscii_Unscaled(bg, alpha) ==
    Concat([i \in 1..Len(bg.data) |->
              Concat([j \in 1..Len(bg.data[i]) |->
                        IntensityToAscii(PixelToIntensity(bg, bg.data[i][j]))])
              \o "\n"])

\* convert_background_to_ascii: one line of the grid per image row
ConvertBackgroundToAscii(bg, alpha) ==
    Concat([i \in 1..Len(bg.data) |->
              Concat([j \in 1..Len(bg.data[i]) |->
                        IntensityToAscii(Scale(PixelToIntensity(bg, bg.data[i][j]), alpha))])
              \o "\n"])

\* backgrounds.iter().find(|(bg, _)| bg.name() == name), over the
\* backgrounds that carry BackgroundData
FindBackground(name) ==
    LET hits == {i \in 1..Len(backgrounds) :
                    /\ backgrounds[i] # NoBackground
                    /\ backgrounds[i].name = name
                    /\ backgrounds[i].has_data}
    IN  IF hits = {} THEN NoBackground
        ELSE backgrounds[CHOOSE i \in hits : \A j \in hits : i <= j]

\* description_text.truncate((len as f32 * percentage_of_text_shown) as usize)
DescriptionText(p, slide) ==
    SubSeq(slide.description, 1,
           Scale(Len(slide.description), p.percentage_of_text_shown))

\* the line of one action, with the hover marks when it is the hovered one
ActionLine(p, slide, i) ==
    IF p.hovering_action = i
    THEN Repeat("-", p.dashes) \o "> " \o Repeat(" ", 5 - p.dashes)
         \o slide.actions[i + 1].text
         \o Repeat(" ", 5 - p.dashes) \o " <" \o Repeat("-", p.dashes) \o "\n\n"
    ELSE slide.actions[i + 1].text \o "\n\n"

ActionsText(p, slide) ==
    LET n_actions == Scale(Len(slide.actions), p.amount_of_actions_shown)
        shown == IF n_actions < Len(slide.actions) THEN n_actions
                 ELSE Len(slide.actions)
    IN  Concat([k \in 1..shown |-> ActionLine(p, slide, k - 1)])

\* variant: a missing slide blanks the three texts
Render_Blank(p, disp) ==
    LET slide == FindSlide(p.current_slide)
    IN  IF slide = NoSlide
        THEN [background |-> "", description |-> "", actions |-> "",
              log |-> "slide not found"]
        ELSE LET bg == FindBackground(slide.background)
             IN  IF bg = NoBackground THEN [disp EXCEPT !.log = "background not found"]
                 ELSE [background |-> ConvertBackgroundToAscii(bg, p.bg_opacity),
                       description |-> DescriptionText(p, slide),
                       actions |-> ActionsText(p, slide),
                       log |-> "rendered"]

\* the body of render once the render timer has fired: the new display
Render(p, disp) ==
    LET slide == FindSlide(p.current_slide)
    IN  IF slide = NoSlide THEN [disp EXCEPT !.log = "slide not found"]
        ELSE LET bg == FindBackground(slide.background)
             IN  IF bg = NoBackground THEN [disp EXCEPT !.log = "background not found"]
                 ELSE [background |-> ConvertBackgroundToAscii(bg, p.bg_opacity),
                       description |-> DescriptionText(p, slide),
                       actions |-> ActionsText(p, slide),
                       log |-> "rendered"]

\* the texts Player::startup puts on screen
StartupDisplay ==
    [background |-> "Loading", description |-> "Description",
     actions |-> "Actions", log |-> None]

\* the three texts on screen
Shown(disp) == <<disp.background, disp.description, disp.actions>>

\* the count of consecutive render passes that found no current slide while
\* the content of a slide was on screen, as far as GRACE_TICKS + 1
MissingPasses(p, disp, n) ==
    IF FindSlide(p.current_slide) # NoSlide THEN 0
    ELSE IF Shown(disp) = Shown(StartupDisplay) THEN 0
    ELSE IF n > GRACE_TICKS THEN n ELSE n + 1

render ==
    /\ CanRun("render")
    /\ Ran("render")
    /\ \E d \in FrameDeltas :
          /\ ReadDelta(d)
          /\ LET t == Tick(player.render_timer, d)
             IN  /\ player' = [player EXCEPT !.render_timer = t.timer]
                 /\ display' = IF t.just_finished THEN Render(player, display)
                               ELSE display
                 /\ missing_passes' = IF t.just_finished
                                      THEN MissingPasses(player, display, missing_passes)
                                      ELSE missing_passes
    /\ UNCHANGED <<slides, backgrounds, workers, receiver,
                   bg_events, delete_bg_dialog,
                   events, cursor, carried, inputs,
                   rename_dialog, commands, state, mouse_events, crashed,
                   started,
                   delete_dialog, add_prompt, editors>>

\* a run of the clocked system at this point would change nothing, whatever
\* the frame's delta: update_state returns at once without its slide, and
\* render has nothing new to report
Idle(sys) ==
    /\ started
    /\ FindSlide(player.current_slide) = NoSlide
    /\ sys = "render" =>
          \A d \in Deltas :
             LET t == Tick(player.render_timer, d)
             IN  /\ t.timer = player.render_timer
                 /\ t.just_finished =>
                       /\ Render(player, display) = display
                       /\ MissingPasses(player, display, missing_passes) = missing_passes

-----------------------------------------------------------------------------
(* Player::render_controls: the "Player Controls" window *)

\* the combo box: the entry clicked replaces current_slide
SelectSlide(p, sel) == [p EXCEPT !.current_slide = sel]

\* one action button: clicked sets next_slide and GotInput, hovered sets
\* hovering_action
ControlButton(p, st, slide, i, clicked) ==
    IF clicked
    THEN [player |-> [p EXCEPT !.next_slide = slide.actions[i + 1].target_slide,
                               !.hovering_action = i],
          state |-> [tag |-> "GotInput", timer |-> NoTimer]]
    ELSE [player |-> [p EXCEPT !.hovering_action = i], state |-> st]

SlideNames == {slides[e].name : e \in {x \in Entities : slides[x] # NoSlide}}

render_controls ==
    /\ CanRun("render_controls")
    /\ Gesture
    /\ Ran("render_controls")
    /\ \/ \E sel \in SlideNames \ {player.current_slide} :
             /\ player' = SelectSlide(player, sel)
             /\ UNCHANGED state
       \/ LET slide == FindSlide(player.current_slide)
          IN  /\ slide # NoSlide
              /\ \E i \in 0..(Len(slide.actions) - 1), clicked \in BOOLEAN :
                    LET r == ControlButton(player, state, slide, i, clicked)
                    IN  player' = r.player /\ state' = r.state
    /\ UNCHANGED <<slides, backgrounds, workers, receiver,
                   bg_events, delete_bg_dialog,
                   events, cursor, carried,
                   rename_dialog, commands, display, delta, mouse_events,
                   crashed, started,
                   delete_dialog, add_prompt, editors, missing_passes>>

-----------------------------------------------------------------------------
(* The editor windows that send renames.  Both return early unless the     *)
(* editors are open (EditorsOpen); a step below is a click in an open      *)
(* window.                                                                 *)

\* slide_list: the "rename" button of a listed slide opens the dialog
slide_list ==
    /\ CanRun("slide_list")
    /\ Gesture
    /\ Ran("slide_list")
    /\ \E e \in Entities :
          /\ slides[e] # NoSlide
          /\ commands' = Append(commands,
                                [op |-> "insert_dialog", old_name |-> slides[e].name])
    /\ UNCHANGED <<slides, backgrounds, workers, receiver,
                   bg_events, delete_bg_dialog,
                   events, cursor, carried,
                   rename_dialog, player, state, display, delta, mouse_events,
                   crashed, started,
                   delete_dialog, add_prompt, editors, missing_passes>>

\* the checks RenameDialog::render makes before it offers "Confirm rename"
RenameAllowed(old_name, new_name) ==
    /\ new_name # ""
    /\ ~(old_name # new_name /\ new_name \in SlideNames)

\* RenameDialog::<Slide>::render with "Confirm rename" clicked
RenameDialog_render ==
    /\ CanRun("RenameDialog_render")
    /\ rename_dialog # NoDialog
    /\ Gesture
    /\ Ran("RenameDialog_render")
    /\ \E new_name \in Names \ {rename_dialog.old_name} :
          /\ RenameAllowed(rename_dialog.old_name, new_name)
          /\ events' = Append(events, Renamed(rename_dialog.old_name, new_name))
    /\ commands' = Append(commands, [op |-> "remove_dialog"])
    /\ UNCHANGED <<slides, backgrounds, workers, receiver,
                   bg_events, delete_bg_dialog,
                   cursor, carried, rename_dialog,
                   player, state, display, delta, mouse_events, crashed,
                   started,
                   delete_dialog, add_prompt, editors, missing_passes>>

\* slide_list: the "remove" button of a listed slide opens the delete dialog
slide_list_remove ==
    /\ CanRun("slide_list")
    /\ Gesture
    /\ Ran("slide_list")
    /\ \E e \in Entities :
          /\ slides[e] # NoSlide
          /\ commands' = Append(commands,
                                [op |-> "insert_delete_dialog", name |-> slides[e].name])
    /\ UNCHANGED <<slides, backgrounds, workers, receiver,
                   bg_events, delete_bg_dialog,
                   events, cursor, carried,
                   rename_dialog, player, state, display, delta, mouse_events,
                   crashed, started, delete_dialog, add_prompt, editors,
                   missing_passes>>

\* the names of the slides with an action that targets name
SlidesWithReferences(name) ==
    {slides[e].name : e \in {x \in Entities :
        /\ slides[x] # NoSlide
        /\ \E i \in 1..Len(slides[x].actions) :
              slides[x].actions[i].target_slide = name}}

\* DeleteSlideDialog::render with "Dlete" clicked; the button is offered only
\* when no slide refers to the name
DeleteSlideDialog_render ==
    /\ CanRun("DeleteSlideDialog_render")
    /\ delete_dialog # NoDialog
    /\ SlidesWithReferences(delete_dialog.name) = {}
    /\ Gesture
    /\ Ran("DeleteSlideDialog_render")
    /\ events' = Append(events, Deleted(delete_dialog.name))
    /\ commands' = Append(commands, [op |-> "remove_delete_dialog"])
    /\ UNCHANGED <<slides, backgrounds, workers, receiver,
                   bg_events, delete_bg_dialog,
                   cursor, carried, rename_dialog,
                   player, state, display, delta, mouse_events, crashed,
                   started, delete_dialog, add_prompt, editors, missing_passes>>

-----------------------------------------------------------------------------
(* Creating slides: the add-slide prompt and the slide editors *)

\* names the user types into the add-slide prompt
PromptNames == {"Den", "slide0"}

\* the names SlideEditor::render tries for a "*NEW*" target, in order
NewNames == <<"slide0", "slide1", "slide2">>

\* Slide::new
SlideNew(name) == MkSlide(name, "", "", <<>>)

\* Action::default
ActionDefault == MkAction("", "")

\* spawns already queued or announced, which will each take an entity
PendingSpawns ==
    Cardinality({i \in 1..Len(commands) : commands[i].op = "spawn"})
    + Cardinality({i \in 1..Len(events) :
                      i > cursor["event_handler"] /\ events[i].kind = "Created"})

PendingEditors ==
    Cardinality({i \in 1..Len(commands) : commands[i].op = "spawn_editor"})

\* the model has an entity left for one more slide, one more editor
RoomForSlide == Cardinality(FreeEntities(slides)) > PendingSpawns
RoomForEditor == Cardinality(FreeEditorIds(editors)) > PendingEditors

\* slide_list: the "Add new" button opens the prompt
slide_list_add_new ==
    /\ CanRun("slide_list")
    /\ Gesture
    /\ Ran("slide_list")
    /\ commands' = Append(commands, [op |-> "insert_add_prompt"])
    /\ UNCHANGED <<slides, backgrounds, workers, receiver,
                   bg_events, delete_bg_dialog,
                   events, cursor, carried,
                   rename_dialog, player, state, display, delta, mouse_events,
                   crashed, started, delete_dialog, add_prompt, editors,
                   missing_passes>>

\* slide_list: the "edit" button of a listed slide opens an editor on it
slide_list_edit ==
    /\ CanRun("slide_list")
    /\ RoomForEditor
    /\ Gesture
    /\ Ran("slide_list")
    /\ \E e \in Entities :
          /\ slides[e] # NoSlide
          /\ commands' = Append(commands,
                                [op |-> "spawn_editor", target |-> slides[e].name])
    /\ UNCHANGED <<slides, backgrounds, workers, receiver,
                   bg_events, delete_bg_dialog,
                   events, cursor, carried,
                   rename_dialog, player, state, display, delta, mouse_events,
                   crashed, started, delete_dialog, add_prompt, editors,
                   missing_passes>>

\* validate_name(name, None, slides)
ValidateName(name) == name # "" /\ name \notin SlideNames

\* AddSlidePrompt::render with "Create" clicked on a name that validates
AddSlidePrompt_render ==
    /\ CanRun("AddSlidePrompt_render")
    /\ add_prompt
    /\ RoomForSlide /\ RoomForEditor
    /\ Gesture
    /\ Ran("AddSlidePrompt_render")
    /\ \E name \in PromptNames :
          /\ ValidateName(name)
          /\ events' = Append(events, Created(SlideNew(name)))
          /\ commands' = commands \o <<[op |-> "spawn_editor", target |-> name],
                                       [op |-> "remove_add_prompt"]>>
    /\ UNCHANGED <<slides, backgrounds, workers, receiver,
                   bg_events, delete_bg_dialog,
                   cursor, carried, rename_dialog,
                   player, state, display, delta, mouse_events, crashed,
                   started, delete_dialog, add_prompt, editors, missing_passes>>

\* SlideEditor::handle_renames on one event
EditorHandleRename(eds, e) ==
    IF e.kind = "Renamed"
    THEN [k \in EditorIds |->
            IF eds[k] # NoEditor /\ eds[k].target = e.old
            THEN [eds[k] EXCEPT !.target = e.new] ELSE eds[k]]
    ELSE eds

RECURSIVE EditorHandleRenamesFold(_, _)
EditorHandleRenamesFold(eds, evs) ==
    IF evs = <<>> THEN eds
    ELSE EditorHandleRenamesFold(EditorHandleRename(eds, Head(evs)), Tail(evs))

SlideEditor_handle_renames ==
    /\ CanRun("SlideEditor_handle_renames")
    /\ ~NoEditors
    /\ RenameUnread("SlideEditor_handle_renames")
    /\ Ran("SlideEditor_handle_renames")
    /\ editors' = EditorHandleRenamesFold(editors,
                                          Unread("SlideEditor_handle_renames"))
    /\ cursor' = [cursor EXCEPT !["SlideEditor_handle_renames"] = Len(events)]
    /\ UNCHANGED <<slides, backgrounds, workers, receiver,
                   bg_events, delete_bg_dialog,
                   events, carried, inputs,
                   rename_dialog, commands, player, state, display, delta,
                   mouse_events, crashed, started, delete_dialog, add_prompt,
                   missing_passes>>

\* what the user does in the window of one editor during a pass
EditorGestures(slide) ==
    {[kind |-> "add_action"]}
    \cup {[kind |-> "remove_action", i |-> i] : i \in 1..Len(slide.actions)}
    \cup {[kind |-> "new_target", i |-> i] : i \in 1..Len(slide.actions)}
    \cup UNION {{[kind |-> "pick_target", i |-> i, name |-> sn] :
                    sn \in SlideNames \ {slide.actions[i].target_slide}} :
                 i \in 1..Len(slide.actions)}

\* the first "slideN" that no slide carries
FreshName ==
    NewNames[Lowest({n \in 1..Len(NewNames) : NewNames[n] \notin SlideNames})]

\* the slide as edited in the window
Unsaved(saved, g) ==
    CASE g.kind = "add_action" ->
            [saved EXCEPT !.actions = Append(saved.actions, ActionDefault)]
      [] g.kind = "remove_action" ->
            [saved EXCEPT !.actions =
                SelectSeq(saved.actions, LAMBDA a : a # saved.actions[g.i])]
      [] g.kind = "new_target" ->
            [saved EXCEPT !.actions[g.i].target_slide = FreshName]
      [] g.kind = "pick_target" ->
            [saved EXCEPT !.actions[g.i].target_slide = g.name]

\* the part of the pass over the editors whose slide is missing: a count
\* left is run down, none left queues the despawn
ExpireEditors(eds) ==
    [k \in EditorIds |->
        IF eds[k] # NoEditor /\ FindSlide(eds[k].target) = NoSlide /\ eds[k].ttl > 0
        THEN [eds[k] EXCEPT !.ttl = eds[k].ttl - 1] ELSE eds[k]]

\* variant: the editor is closed on the pass that runs its count down to 0
RECURSIVE ExpireCommands_Early(_, _)
ExpireCommands_Early(eds, k) ==
    IF k > MaxEditors THEN <<>>
    ELSE (IF eds[k] # NoEditor /\ FindSlide(eds[k].target) = NoSlide
             /\ eds[k].ttl <= 1
          THEN <<[op |-> "despawn_editor", id |-> k]>> ELSE <<>>)
         \o ExpireCommands_Early(eds, k + 1)

RECURSIVE ExpireCommands(_, _)
ExpireCommands(eds, k) ==
    IF k > MaxEditors THEN <<>>
    ELSE (IF eds[k] # NoEditor /\ FindSlide(eds[k].target) = NoSlide
             /\ eds[k].ttl = 0
          THEN <<[op |-> "despawn_editor", id |-> k]>> ELSE <<>>)
         \o ExpireCommands(eds, k + 1)

\* SlideEditor::render: one pass over the editors, in which the user may
\* edit the slide of one of them
SlideEditor_render ==
    /\ CanRun("SlideEditor_render")
    /\ ~NoEditors
    /\ Ran("SlideEditor_render")
    /\ editors' = ExpireEditors(editors)
    /\ \/ /\ commands' = commands \o ExpireCommands(editors, 1)
          /\ UNCHANGED <<events, inputs>>
       \/ /\ Gesture
          /\ \E k \in EditorIds :
                /\ editors[k] # NoEditor
                /\ FindSlide(editors[k].target) # NoSlide
                /\ \E g \in EditorGestures(FindSlide(editors[k].target)) :
                      /\ g.kind = "new_target" => RoomForSlide /\ RoomForEditor
                      /\ events' = Append(events,
                            Updated(Unsaved(FindSlide(editors[k].target), g)))
                      /\ commands' = commands \o ExpireCommands(editors, 1)
                            \o (IF g.kind = "new_target"
                                THEN <<[op |-> "spawn", res |-> SlideNew(FreshName)],
                                       [op |-> "spawn_editor", target |-> FreshName]>>
                                ELSE <<>>)
    /\ UNCHANGED <<slides, backgrounds, workers, receiver,
                   bg_events, delete_bg_dialog,
                   cursor, carried, rename_dialog,
                   player, state, display, delta, mouse_events, crashed,
                   started, delete_dialog, add_prompt, missing_passes>>

-----------------------------------------------------------------------------
(* End of the stage: deferred commands, event bookkeeping, next frame *)

-----------------------------------------------------------------------------
(* Images: the pictures of the backgrounds are fetched by worker threads   *)
(* and come back over a channel (src/src/images.rs)                        *)

\* the pixels the server holds under a url
ImageAt(url) ==
    IF url = "u_room" THEN << <<(<<255, 255, 255>>), (<<90, 120, 60>>)>> >>
    ELSE << <<(<<10, 20, 30>>), (<<200, 100, 0>>)>> >>

\* the fetch result a worker sends; old: sent in an earlier frame
Fetched(url) == [url |-> url, old |-> FALSE]

BgEntities == 1..Len(backgrounds)

\* variant: Query<(Entity, &Background)>, the marker ignored
Unrequested_AnyMarker ==
    {i \in BgEntities : backgrounds[i] # NoBackground}

\* Query<(Entity, &Background), Without<Requested>>
Unrequested ==
    {i \in BgEntities : backgrounds[i] # NoBackground /\ ~backgrounds[i].requested}

\* backgrounds.iter().filter(|(_, bg)| bg.url == url)
WithUrl(url) ==
    {i \in BgEntities : backgrounds[i] # NoBackground /\ backgrounds[i].url = url}

\* auto_request_images: every background not yet requested is marked and a
\* thread is started for its url
auto_request_images ==
    /\ CanRun("auto_request_images")
    /\ Unrequested # {}
    /\ Ran("auto_request_images")
    /\ commands' = Append(commands,
                          [op |-> "insert_requested", entities |-> Unrequested])
    /\ workers' = [u \in Urls |->
                     workers[u] + Cardinality(Unrequested \cap WithUrl(u))]
    /\ UNCHANGED <<slides, backgrounds, receiver, bg_events, delete_bg_dialog,
                   events, cursor, carried, inputs, rename_dialog,
                   delete_dialog, add_prompt, editors, missing_passes, player,
                   state, display, delta, mouse_events, started, crashed>>

\* request_image: a worker thread ends, at any moment of any frame; it has
\* sent its result on the channel, or it panicked on a failed request and
\* sent nothing
request_image ==
    /\ ~crashed
    /\ \E u \in Urls :
          /\ workers[u] > 0
          /\ workers' = [workers EXCEPT ![u] = @ - 1]
          /\ \E ok \in BOOLEAN :
                receiver' = IF ok THEN Append(receiver, Fetched(u)) ELSE receiver
    /\ UNCHANGED <<slides, backgrounds, bg_events, delete_bg_dialog,
                   events, cursor, carried, inputs, rename_dialog,
                   delete_dialog, add_prompt, editors, missing_passes,
                   commands, player, state, display, ran, delta, mouse_events,
                   started, crashed>>

\* receive_images: receiver.try_iter() drains the channel; each result is
\* queued for insertion into the backgrounds that carry its url now
receive_images ==
    /\ CanRun("receive_images")
    /\ receiver # <<>>
    /\ Ran("receive_images")
    /\ commands' = commands \o
          [k \in 1..Len(receiver) |->
              [op |-> "insert_data", url |-> receiver[k].url,
               entities |-> WithUrl(receiver[k].url)]]
    /\ receiver' = <<>>
    /\ UNCHANGED <<slides, backgrounds, workers, bg_events, delete_bg_dialog,
                   events, cursor, carried, inputs, rename_dialog,
                   delete_dialog, add_prompt, editors, missing_passes, player,
                   state, display, delta, mouse_events, started, crashed>>

\* images: the "delete" button of a listed background opens the dialog
images_delete ==
    /\ CanRun("images")
    /\ Gesture
    /\ Ran("images")
    /\ \E i \in BgEntities :
          /\ backgrounds[i] # NoBackground
          /\ commands' = Append(commands,
                                [op |-> "insert_delete_bg_dialog",
                                 name |-> backgrounds[i].name])
    /\ UNCHANGED <<slides, backgrounds, workers, receiver, bg_events,
                   delete_bg_dialog, events, cursor, carried, rename_dialog,
                   delete_dialog, add_prompt, editors, missing_passes, player,
                   state, display, delta, mouse_events, started, crashed>>

\* BackgroundEditor::render with "refresh" clicked in the window of a
\* background; the window is drawn only for a background that has its
\* picture, and the click queues the removal of the Requested marker
BackgroundEditor_render ==
    /\ CanRun("BackgroundEditor_render")
    /\ Gesture
    /\ Ran("BackgroundEditor_render")
    /\ \E i \in BgEntities :
          /\ backgrounds[i] # NoBackground
          /\ backgrounds[i].has_data
          /\ commands' = Append(commands,
                                [op |-> "remove_requested", entities |-> {i}])
    /\ UNCHANGED <<slides, backgrounds, workers, receiver, bg_events,
                   delete_bg_dialog, events, cursor, carried, rename_dialog,
                   delete_dialog, add_prompt, editors, missing_passes, player,
                   state, display, delta, mouse_events, started, crashed>>

\* the names of the slides shown on the background name
SlidesWithBackground(name) ==
    {slides[e].name : e \in {x \in Entities :
        slides[x] # NoSlide /\ slides[x].background = name}}

\* DeleteBgDialog::render with "Delete" clicked; the button is offered only
\* when no slide is shown on the background
DeleteBgDialog_render ==
    /\ CanRun("DeleteBgDialog_render")
    /\ delete_bg_dialog # NoDialog
    /\ SlidesWithBackground(delete_bg_dialog.name) = {}
    /\ Gesture
    /\ Ran("DeleteBgDialog_render")
    /\ bg_events' = Append(bg_events,
                           [kind |-> "Deleted", name |-> delete_bg_dialog.name,
                            old |-> FALSE])
    /\ commands' = Append(commands, [op |-> "remove_delete_bg_dialog"])
    /\ UNCHANGED <<slides, backgrounds, workers, receiver, delete_bg_dialog,
                   events, cursor, carried, rename_dialog,
                   delete_dialog, add_prompt, editors, missing_passes, player,
                   state, display, delta, mouse_events, started, crashed>>

\* CrudPlugin::<Background>::event_handler: Deleted(name) queues the despawn
\* of the backgrounds of that name
Background_event_handler ==
    /\ CanRun("Background_event_handler")
    /\ bg_events # <<>>
    /\ Ran("Background_event_handler")
    /\ commands' = commands \o
          [k \in 1..Len(bg_events) |->
              [op |-> "despawn_bg",
               entities |-> {i \in BgEntities :
                               /\ backgrounds[i] # NoBackground
                               /\ backgrounds[i].name = bg_events[k].name}]]
    /\ bg_events' = <<>>
    /\ UNCHANGED <<slides, backgrounds, workers, receiver, delete_bg_dialog,
                   events, cursor, carried, inputs, rename_dialog,
                   delete_dialog, add_prompt, editors, missing_passes, player,
                   state, display, delta, mouse_events, started, crashed>>

\* what is left in a queue at the end of a frame was sent in an earlier one
Aged(queue) == [k \in 1..Len(queue) |-> [queue[k] EXCEPT !.old = TRUE]]

\* the queue holds nothing that was sent in an earlier frame
AllNew(queue) == \A k \in 1..Len(queue) : ~queue[k].old

\* Insert on an entity: world.entity_mut(entity) panics when the entity has
\* been despawned
InsertInto(w, entities, bgs) ==
    IF \E e \in entities : w.backgrounds[e] = NoBackground
    THEN [w EXCEPT !.crashed = TRUE]
    ELSE [w EXCEPT !.backgrounds = bgs]

\* one deferred command applied to the world: the slide entities, the
\* background entities, the editor entities and the dialog resources
ApplyCommand(w, c) ==
    CASE c.op = "insert_dialog" ->
            [w EXCEPT !.rename_dialog = [open |-> TRUE, old_name |-> c.old_name]]
      [] c.op = "remove_dialog" -> [w EXCEPT !.rename_dialog = NoDialog]
      [] c.op = "insert_delete_dialog" ->
            [w EXCEPT !.delete_dialog = [open |-> TRUE, name |-> c.name]]
      [] c.op = "remove_delete_dialog" -> [w EXCEPT !.delete_dialog = NoDialog]
      [] c.op = "insert_add_prompt" -> [w EXCEPT !.add_prompt = TRUE]
      [] c.op = "remove_add_prompt" -> [w EXCEPT !.add_prompt = FALSE]
      [] c.op = "despawn" ->
            [w EXCEPT !.slides = [e \in Entities |->
                                    IF e \in c.entities THEN NoSlide ELSE w.slides[e]]]
      [] c.op = "spawn" ->
            IF FreeEntities(w.slides) = {} THEN w
            ELSE [w EXCEPT !.slides[Lowest(FreeEntities(w.slides))] = c.res]
      [] c.op = "spawn_editor" ->
            IF FreeEditorIds(w.editors) = {} THEN w
            ELSE [w EXCEPT !.editors[Lowest(FreeEditorIds(w.editors))] =
                                [target |-> c.target, ttl |-> GRACE_TICKS]]
      [] c.op = "despawn_editor" -> [w EXCEPT !.editors[c.id] = NoEditor]
      [] c.op = "insert_requested" ->
            InsertInto(w, c.entities,
                       [i \in 1..Len(w.backgrounds) |->
                           IF i \in c.entities
                           THEN [w.backgrounds[i] EXCEPT !.requested = TRUE]
                           ELSE w.backgrounds[i]])
      [] c.op = "remove_requested" ->
            \* Remove finds no entity and does nothing when it is despawned
            [w EXCEPT !.backgrounds =
                [i \in 1..Len(w.backgrounds) |->
                    IF i \in c.entities /\ w.backgrounds[i] # NoBackground
                    THEN [w.backgrounds[i] EXCEPT !.requested = FALSE]
                    ELSE w.backgrounds[i]]]
      [] c.op = "insert_data" ->
            InsertInto(w, c.entities,
                       [i \in 1..Len(w.backgrounds) |->
                           IF i \in c.entities
                           THEN [w.backgrounds[i] EXCEPT !.has_data = TRUE,
                                                         !.data = ImageAt(c.url)]
                           ELSE w.backgrounds[i]])
      [] c.op = "despawn_bg" ->
            [w EXCEPT !.backgrounds = [i \in 1..Len(w.backgrounds) |->
                                         IF i \in c.entities THEN NoBackground
                                         ELSE w.backgrounds[i]]]
      [] c.op = "insert_delete_bg_dialog" ->
            [w EXCEPT !.delete_bg_dialog = [open |-> TRUE, name |-> c.name]]
      [] c.op = "remove_delete_bg_dialog" -> [w EXCEPT !.delete_bg_dialog = NoDialog]

RECURSIVE ApplyCommands(_, _)
ApplyCommands(w, cmds) ==
    IF cmds = <<>> \/ w.crashed THEN w
    ELSE ApplyCommands(ApplyCommand(w, Head(cmds)), Tail(cmds))

IsDespawnBg(c) == c.op = "despawn_bg"
NotDespawnBg(c) == c.op # "despawn_bg"

\* the systems whose command buffers can meet on one background entity
BufferRivals == {"Background_event_handler", "receive_images"}

\* the frame's commands, buffer by buffer: the buffer of the system first
\* comes before the buffers of its rivals
Buffers(first) ==
    IF first = "Background_event_handler"
    THEN SelectSeq(commands, IsDespawnBg) \o SelectSeq(commands, NotDespawnBg)
    ELSE SelectSeq(commands, NotDespawnBg) \o SelectSeq(commands, IsDespawnBg)

\* what a reader has consumed by the end of the frame.  A reader that acts
\* on Renamed alone and took no step ran while no Renamed was unread: it
\* read the events before the first unread Renamed to no effect, and with
\* no editor open SlideEditor::handle_renames reads every event to no effect
EndCursor(r) ==
    IF r \notin RenameReaders \/ r \in ran THEN cursor[r]
    ELSE IF r = "SlideEditor_handle_renames" /\ NoEditors THEN Len(events)
    ELSE Lowest({k \in cursor[r]..Len(events) :
                    k = Len(events) \/ events[k + 1].kind = "Renamed"})

MinCursor == CHOOSE k \in {EndCursor(r) : r \in Readers} :
                \A r \in Readers : k <= EndCursor(r)

EndFrame ==
    /\ ~crashed
    /\ \A sys \in Clocked : sys \in ran \/ Idle(sys)
    /\ \A r \in Readers : EndCursor(r) >= carried
    /\ ~NoEditors => "SlideEditor_render" \in ran
    /\ Unrequested # {} => "auto_request_images" \in ran
    /\ AllNew(receiver) /\ AllNew(bg_events)
    /\ \E first \in BufferRivals :
          LET w == ApplyCommands([slides |-> slides, backgrounds |-> backgrounds,
                                  editors |-> editors,
                                  rename_dialog |-> rename_dialog,
                                  delete_dialog |-> delete_dialog,
                                  delete_bg_dialog |-> delete_bg_dialog,
                                  add_prompt |-> add_prompt,
                                  crashed |-> FALSE],
                                 Buffers(first))
          IN  /\ slides' = w.slides
              /\ backgrounds' = w.backgrounds
              /\ editors' = w.editors
              /\ rename_dialog' = w.rename_dialog
              /\ delete_dialog' = w.delete_dialog
              /\ delete_bg_dialog' = w.delete_bg_dialog
              /\ add_prompt' = w.add_prompt
              /\ crashed' = w.crashed
    /\ receiver' = Aged(receiver)
    /\ bg_events' = Aged(bg_events)
    /\ commands' = <<>>
    /\ events' = SubSeq(events, MinCursor + 1, Len(events))
    /\ cursor' = [r \in Readers |-> EndCursor(r) - MinCursor]
    /\ carried' = Len(events) - MinCursor
    /\ ran' = {}
    /\ started' = TRUE
    /\ mouse_events' = NoMouse
    /\ delta' = NoDelta
    /\ UNCHANGED <<workers, inputs, player, state, display, missing_passes>>

-----------------------------------------------------------------------------
(* Initial state: Player::new, PlayerPlugin::build, Player::startup, with  *)
(* the slide and background files loaded                                   *)

LivingText == "You are in the living room. It is quiet, and a door leads to the hall."

InitSlides ==
    [e \in Entities |->
        CASE e = 1 -> MkSlide("Living", LivingText, "room",
                              <<MkAction("Go to the hall", "Hall"),
                                MkAction("Open the trapdoor", "Den")>>)
          [] e = 2 -> MkSlide("Hall", "", "room", <<>>)
          [] OTHER -> NoSlide]

\* the background file, its picture fetched
InitBackgrounds ==
    <<[name |-> "room", url |-> "u_room", color_channels |-> <<1, 1, 1>>,
       requested |-> TRUE, has_data |-> TRUE, data |-> ImageAt("u_room")]>>

\* variant: the player starts with the first action hovered
PlayerNew_Hovering ==
    [current_slide |-> "Living", next_slide |-> "Living",
     render_timer |-> TimerFromSeconds(RENDER_PERIOD, TRUE),
     dashes |-> 0, percentage_of_text_shown |-> Zero,
     amount_of_actions_shown |-> Zero, hovering_action |-> 0,
     bg_opacity |-> Zero]

PlayerNew ==
    [current_slide |-> "Living", next_slide |-> "Living",
     render_timer |-> TimerFromSeconds(RENDER_PERIOD, TRUE),
     dashes |-> 0, percentage_of_text_shown |-> Zero,
     amount_of_actions_shown |-> Zero, hovering_action |-> NoIndex,
     bg_opacity |-> Zero]

Init ==
    /\ slides = InitSlides
    /\ backgrounds = InitBackgrounds
    /\ workers = [u \in Urls |-> 0]
    /\ receiver = <<>>
    /\ bg_events = <<>>
    /\ delete_bg_dialog = NoDialog
    /\ events = <<>>
    /\ cursor = [r \in Readers |-> 0]
    /\ carried = 0
    /\ inputs = MaxInputs
    /\ rename_dialog = NoDialog
    /\ delete_dialog = NoDialog
    /\ add_prompt = FALSE
    /\ editors = [k \in EditorIds |-> NoEditor]
    /\ missing_passes = 0
    /\ commands = <<>>
    /\ player = PlayerNew
    /\ state = Phase("FadeInBg", TimerFromSeconds(BG_FADE_IN, FALSE))
    /\ display = StartupDisplay
    /\ ran = {}
    /\ delta = NoDelta
    /\ started = FALSE
    /\ mouse_events = NoMouse
    /\ crashed = FALSE

Next ==
    \/ update_state
    \/ handle_mouse
    \/ handle_renames
    \/ render
    \/ render_controls
    \/ event_handler
    \/ update_references
    \/ slide_list
    \/ RenameDialog_render
    \/ EndFrame

Spec == Init /\ [][Next]_vars

\* the player with the pointer as its only control, in a loop that never
\* stops: a system that is due runs and a frame whose systems have all run
\* ends, while the user may stay idle
NextPointer ==
    \/ update_state
    \/ handle_mouse
    \/ render
    \/ EndFrame

SpecPointer == Init /\ [][NextPointer]_vars /\ WF_vars(NextPointer)

\* the player with the pointer as its only control, and the editor's slide
\* list with its rename and delete dialogs
NextDelete ==
    \/ update_state
    \/ handle_mouse
    \/ handle_renames
    \/ render
    \/ event_handler
    \/ update_references
    \/ slide_list
    \/ RenameDialog_render
    \/ slide_list_remove
    \/ DeleteSlideDialog_render
    \/ EndFrame

SpecDelete == Init /\ [][NextDelete]_vars

-----------------------------------------------------------------------------
\* The editor at work on a slide file that holds no slide of the player's
\* start name: one slide, whose only action leads back to it
InitCrudSlides ==
    [e \in Entities |->
        IF e = 1 THEN MkSlide("Hall", "", "room", <<MkAction("Look again", "Hall")>>)
        ELSE NoSlide]

InitCrud ==
    /\ slides = InitCrudSlides
    /\ backgrounds = InitBackgrounds
    /\ workers = [u \in Urls |-> 0]
    /\ receiver = <<>>
    /\ bg_events = <<>>
    /\ delete_bg_dialog = NoDialog
    /\ events = <<>>
    /\ cursor = [r \in Readers |-> 0]
    /\ carried = 0
    /\ inputs = MaxEdits
    /\ rename_dialog = NoDialog
    /\ delete_dialog = NoDialog
    /\ add_prompt = FALSE
    /\ editors = [k \in EditorIds |-> NoEditor]
    /\ missing_passes = 0
    /\ commands = <<>>
    /\ player = PlayerNew
    /\ state = Phase("FadeInBg", TimerFromSeconds(BG_FADE_IN, FALSE))
    /\ display = StartupDisplay
    /\ ran = {}
    /\ delta = NoDelta
    /\ started = FALSE
    /\ mouse_events = NoMouse
    /\ crashed = FALSE

NextCrud ==
    \/ update_state
    \/ render
    \/ handle_renames
    \/ event_handler
    \/ update_references
    \/ SlideEditor_handle_renames
    \/ slide_list
    \/ slide_list_remove
    \/ slide_list_add_new
    \/ slide_list_edit
    \/ RenameDialog_render
    \/ DeleteSlideDialog_render
    \/ AddSlidePrompt_render
    \/ SlideEditor_render
    \/ EndFrame

SpecCrud == InitCrud /\ [][NextCrud]_vars

-----------------------------------------------------------------------------
\* The editor after a first rename of the slide it edits: "edit" and
\* "rename" were pressed on "Hall", the rename to "Den" was confirmed, the
\* editor's render ran twice between event_handler and its own handle_renames
\* (once in the frame of the confirmation, once in the next), and "rename"
\* was pressed again.  Nothing deletes a slide

InitEditors ==
    /\ slides = [e \in Entities |->
                   IF e = 1 THEN MkSlide("Den", "", "room",
                                         <<MkAction("Look again", "Den")>>)
                   ELSE NoSlide]
    /\ backgrounds = InitBackgrounds
    /\ workers = [u \in Urls |-> 0]
    /\ receiver = <<>>
    /\ bg_events = <<>>
    /\ delete_bg_dialog = NoDialog
    /\ events = <<>>
    /\ cursor = [r \in Readers |-> 0]
    /\ carried = 0
    /\ inputs = MaxInputs
    /\ rename_dialog = [open |-> TRUE, old_name |-> "Den"]
    /\ delete_dialog = NoDialog
    /\ add_prompt = FALSE
    /\ editors = [k \in EditorIds |->
                    IF k = 1 THEN [target |-> "Den",
                                   ttl |-> GRACE_TICKS - 2]
                    ELSE NoEditor]
    /\ missing_passes = 0
    /\ commands = <<>>
    /\ player = [PlayerNew EXCEPT !.render_timer.finished = TRUE]
    /\ state = Phase("FadeInBg", TimerFromSeconds(BG_FADE_IN, FALSE))
    /\ display = [StartupDisplay EXCEPT !.log = "slide not found"]
    /\ ran = {}
    /\ delta = NoDelta
    /\ started = TRUE
    /\ mouse_events = NoMouse
    /\ crashed = FALSE

NextEditors ==
    \/ update_state
    \/ render
    \/ handle_renames
    \/ event_handler
    \/ update_references
    \/ SlideEditor_handle_renames
    \/ slide_list
    \/ RenameDialog_render
    \/ SlideEditor_render
    \/ EndFrame

SpecEditors == InitEditors /\ [][NextEditors]_vars

-----------------------------------------------------------------------------
\* The editor at work on two slides: "Add new" was pressed and "Den" typed
\* into the prompt, then "edit" was pressed on "Hall" and "remove" on "Den".
\* Editors are open on "Den" and on "Hall", the delete dialog on "Den",
\* which no action targets, and nothing is renamed

InitUnlink ==
    /\ slides = [e \in Entities |->
                   IF e = 1 THEN InitCrudSlides[1] ELSE SlideNew("Den")]
    /\ backgrounds = InitBackgrounds
    /\ workers = [u \in Urls |-> 0]
    /\ receiver = <<>>
    /\ bg_events = <<>>
    /\ delete_bg_dialog = NoDialog
    /\ events = <<>>
    /\ cursor = [r \in Readers |-> 0]
    /\ carried = 0
    /\ inputs = MaxInputs
    /\ rename_dialog = NoDialog
    /\ delete_dialog = [open |-> TRUE, name |-> "Den"]
    /\ add_prompt = FALSE
    /\ editors = [k \in EditorIds |->
                    [target |-> IF k = 1 THEN "Den" ELSE InitCrudSlides[1].name,
                     ttl |-> GRACE_TICKS]]
    /\ missing_passes = 0
    /\ commands = <<>>
    /\ player = [PlayerNew EXCEPT !.render_timer.finished = TRUE]
    /\ state = Phase("FadeInBg", TimerFromSeconds(BG_FADE_IN, FALSE))
    /\ display = [StartupDisplay EXCEPT !.log = "slide not found"]
    /\ ran = {}
    /\ delta = NoDelta
    /\ started = TRUE
    /\ mouse_events = NoMouse
    /\ crashed = FALSE

NextUnlink ==
    \/ update_state
    \/ render
    \/ event_handler
    \/ SlideEditor_render
    \/ DeleteSlideDialog_render
    \/ EndFrame

SpecUnlink == InitUnlink /\ [][NextUnlink]_vars

-----------------------------------------------------------------------------
\* The player at the end of its first frame, in which "rename" or "delete"
\* was pressed on the start slide: the dialog is open on it

InitDialog ==
    /\ slides = InitSlides
    /\ backgrounds = InitBackgrounds
    /\ workers = [u \in Urls |-> 0]
    /\ receiver = <<>>
    /\ bg_events = <<>>
    /\ delete_bg_dialog = NoDialog
    /\ events = <<>>
    /\ cursor = [r \in Readers |-> 0]
    /\ carried = 0
    /\ inputs = MaxInputs
    /\ \/ /\ rename_dialog = [open |-> TRUE, old_name |-> PlayerNew.current_slide]
          /\ delete_dialog = NoDialog
       \/ /\ rename_dialog = NoDialog
          /\ delete_dialog = [open |-> TRUE, name |-> PlayerNew.current_slide]
    /\ add_prompt = FALSE
    /\ editors = [k \in EditorIds |-> NoEditor]
    /\ missing_passes = 0
    /\ commands = <<>>
    /\ player = PlayerNew
    /\ state = Phase("FadeInBg", TimerFromSeconds(BG_FADE_IN, FALSE))
    /\ display = StartupDisplay
    /\ ran = {}
    /\ delta = NoDelta
    /\ started = TRUE
    /\ mouse_events = NoMouse
    /\ crashed = FALSE

NextDialog ==
    \/ update_state
    \/ handle_mouse
    \/ handle_renames
    \/ render
    \/ event_handler
    \/ update_references
    \/ RenameDialog_render
    \/ DeleteSlideDialog_render
    \/ EndFrame

SpecDialog == InitDialog /\ [][NextDialog]_vars

-----------------------------------------------------------------------------
\* The program as it starts: the background file read, no picture fetched
\* yet; "room" is the background of the slides, "attic" of none

InitImagesBackgrounds ==
    <<[name |-> "room", url |-> "u_room", color_channels |-> <<1, 1, 1>>,
       requested |-> FALSE, has_data |-> FALSE, data |-> <<>>],
      [name |-> "attic", url |-> "u_attic", color_channels |-> <<1, 1, 1>>,
       requested |-> FALSE, has_data |-> FALSE, data |-> <<>>]>>

InitImages ==
    /\ slides = InitSlides
    /\ backgrounds = InitImagesBackgrounds
    /\ workers = [u \in Urls |-> 0]
    /\ receiver = <<>>
    /\ bg_events = <<>>
    /\ delete_bg_dialog = NoDialog
    /\ events = <<>>
    /\ cursor = [r \in Readers |-> 0]
    /\ carried = 0
    /\ inputs = MaxInputs
    /\ rename_dialog = NoDialog
    /\ delete_dialog = NoDialog
    /\ add_prompt = FALSE
    /\ editors = [k \in EditorIds |-> NoEditor]
    /\ missing_passes = 0
    /\ commands = <<>>
    /\ player = PlayerNew
    /\ state = Phase("FadeInBg", TimerFromSeconds(BG_FADE_IN, FALSE))
    /\ display = StartupDisplay
    /\ ran = {}
    /\ delta = NoDelta
    /\ started = FALSE
    /\ mouse_events = NoMouse
    /\ crashed = FALSE

NextImages ==
    \/ update_state
    \/ render
    \/ auto_request_images
    \/ request_image
    \/ receive_images
    \/ images_delete
    \/ BackgroundEditor_render
    \/ DeleteBgDialog_render
    \/ Background_event_handler
    \/ EndFrame

SpecImages == InitImages /\ [][NextImages]_vars

-----------------------------------------------------------------------------
\* The player left alone on a background of any picture and any weighting
\* of the colour channels, drawn from samples that lie below, on and above
\* the thresholds of intensity_to_ascii

PixelSamples == {<<0, 0, 0>>, <<14, 14, 15>>, <<15, 15, 15>>, <<90, 120, 60>>,
                 <<224, 225, 226>>, <<255, 255, 255>>}

ChannelSamples == {<<1, 1, 1>>, <<255, 255, 255>>, <<0, 0, 0>>, <<1, 0, 0>>,
                   <<2, 1, 0>>, <<0, 0, 255>>}

InitAscii ==
    /\ slides = InitSlides
    /\ \E px1, px2 \in PixelSamples : \E cc \in ChannelSamples :
          backgrounds = <<[name |-> "room", url |-> "u_room",
                           color_channels |-> cc, requested |-> TRUE,
                           has_data |-> TRUE, data |-> << <<px1, px2>> >>]>>
    /\ workers = [u \in Urls |-> 0]
    /\ receiver = <<>>
    /\ bg_events = <<>>
    /\ delete_bg_dialog = NoDialog
    /\ events = <<>>
    /\ cursor = [r \in Readers |-> 0]
    /\ carried = 0
    /\ inputs = 0
    /\ rename_dialog = NoDialog
    /\ delete_dialog = NoDialog
    /\ add_prompt = FALSE
    /\ editors = [k \in EditorIds |-> NoEditor]
    /\ missing_passes = 0
    /\ commands = <<>>
    /\ player = PlayerNew
    /\ state = Phase("FadeInBg", TimerFromSeconds(BG_FADE_IN, FALSE))
    /\ display = StartupDisplay
    /\ ran = {}
    /\ delta = NoDelta
    /\ started = FALSE
    /\ mouse_events = NoMouse
    /\ crashed = FALSE

NextAscii ==
    \/ update_state
    \/ render
    \/ EndFrame

SpecAscii == InitAscii /\ [][NextAscii]_vars

-----------------------------------------------------------------------------
\* The player left alone on a start slide of any description and any number
\* of actions, with frames that keep coming: the app runner calls update()
\* in a loop, and each update runs every system of the stage once

LiveDescriptions == {"", "Hi.", LivingText}

LiveActions == {SubSeq(InitSlides[1].actions, 1, n) :
                   n \in 0..Len(InitSlides[1].actions)}

InitLive ==
    /\ \E desc \in LiveDescriptions : \E acts \in LiveActions :
          slides = [InitSlides EXCEPT ![1] = MkSlide("Living", desc, "room", acts)]
    /\ backgrounds = InitBackgrounds
    /\ workers = [u \in Urls |-> 0]
    /\ receiver = <<>>
    /\ bg_events = <<>>
    /\ delete_bg_dialog = NoDialog
    /\ events = <<>>
    /\ cursor = [r \in Readers |-> 0]
    /\ carried = 0
    /\ inputs = 0
    /\ rename_dialog = NoDialog
    /\ delete_dialog = NoDialog
    /\ add_prompt = FALSE
    /\ editors = [k \in EditorIds |-> NoEditor]
    /\ missing_passes = 0
    /\ commands = <<>>
    /\ player = PlayerNew
    /\ state = Phase("FadeInBg", TimerFromSeconds(BG_FADE_IN, FALSE))
    /\ display = StartupDisplay
    /\ ran = {}
    /\ delta = NoDelta
    /\ started = FALSE
    /\ mouse_events = NoMouse
    /\ crashed = FALSE

NextLive ==
    \/ update_state
    \/ render
    \/ EndFrame

\* the loop never stops: a system that is due runs, and a frame whose
\* systems have all run ends; every step adds to `ran` or empties it
SpecLive == InitLive /\ [][NextLive]_vars /\ WF_vars(NextLive)

-----------------------------------------------------------------------------
(* Vocabulary of the properties *)

\* the step is the run of system sys in the current frame
Step(sys) == sys \notin ran /\ sys \in ran'

\* the player's current slide resolves
Found == FindSlide(player.current_slide) # NoSlide

FadeInPhases == {"FadeInBg", "PauseBetweenBgAndText", "FadeInText",
                 "PauseBetweenTextAndActions", "FadeInActions"}

\* the phase that follows a phase when its timer runs out and nobody clicks
CycleNext(tag) ==
    CASE tag = "FadeInBg" -> "PauseBetweenBgAndText"
      [] tag = "PauseBetweenBgAndText" -> "FadeInText"
      [] tag = "FadeInText" -> "PauseBetweenTextAndActions"
      [] tag = "PauseBetweenTextAndActions" -> "FadeInActions"
      [] tag = "FadeInActions" -> "WaitingForInput"
      [] tag = "WaitingForInput" -> "WaitingForInput"
      [] tag = "GotInput" -> "FadeOutTextAndActions"
      [] tag = "FadeOutTextAndActions" -> "FadeOutBg"
      [] tag = "FadeOutBg" -> "FadeInBg"

\* a name carried through a batch of notifications, each Renamed(old, new)
\* replacing old by new
RECURSIVE Remap(_, _)
Remap(name, evs) ==
    IF evs = <<>> THEN name
    ELSE Remap(IF Head(evs).kind = "Renamed" /\ Head(evs).old = name
               THEN Head(evs).new ELSE name,
               Tail(evs))

-----------------------------------------------------------------------------
(* C1: with no user input the phases follow the cycle one step at a time:  *)
(* an update_state step leaves the phase where it is or moves it to the    *)
(* next phase of the cycle, never further and never back; it never leaves  *)
(* WaitingForInput; the only step that leaves WaitingForInput is a click,  *)
(* which goes to GotInput; and no system other than update_state and the   *)
(* two click handlers touches the phase.                                   *)
C1_PhaseOrder ==
    [][/\ Step("update_state") => state'.tag \in {state.tag, CycleNext(state.tag)}
       /\ (state.tag = "WaitingForInput" /\ state'.tag # "WaitingForInput")
            => /\ state'.tag = "GotInput"
               /\ Step("handle_mouse") \/ Step("render_controls")
       /\ ~(Step("update_state") \/ Step("handle_mouse") \/ Step("render_controls"))
            => state' = state]_vars

\* C1 witness: WaitingForInput reached by ticks alone
C1_Witness == state.tag = "WaitingForInput" /\ inputs = MaxInputs

(* C2: a click handled by handle_mouse or by the controls window while the *)
(* phase is one of the five fade-in phases leaves next_slide and the phase *)
(* unchanged.                                                              *)
C2_EarlyClickIgnored ==
    [][((Step("handle_mouse") \/ Step("render_controls"))
        /\ state.tag \in FadeInPhases)
       => (player'.next_slide = player.next_slide /\ state' = state)]_vars

(* C3: a left press handled in WaitingForInput with hovering_action =       *)
(* Some(i) sets next_slide to actions[i].target_slide of the current slide *)
(* and the phase to GotInput; with hovering_action = None it changes       *)
(* neither.                                                                *)
C3_ClickSelects ==
    [][(Step("handle_mouse") /\ Found /\ state.tag = "WaitingForInput"
        /\ mouse_events'.click)
       => LET slide == FindSlide(player.current_slide)
              i == player'.hovering_action
          IN  /\ (i # NoIndex /\ i < Len(slide.actions))
                   => /\ player'.next_slide = slide.actions[i + 1].target_slide
                      /\ state'.tag = "GotInput"
              /\ i = NoIndex
                   => /\ player'.next_slide = player.next_slide
                      /\ state' = state]_vars

\* C3 witness: the first gesture was a click on the hovered second action
\* with everything shown
C3_Witness ==
    /\ "handle_mouse" \in ran /\ mouse_events.click /\ inputs = MaxInputs - 1
    /\ state.tag = "GotInput"
    /\ player.amount_of_actions_shown = One
    /\ player.hovering_action = 1
    /\ player.next_slide = "Den"

(* C4: handle_renames rewrites both current_slide and next_slide: after it *)
(* has processed its unread notifications each of the two names is the old *)
(* name carried through the renames.                                       *)
C4_RenameRewritesBoth ==
    [][Step("handle_renames")
       => /\ player'.current_slide =
                Remap(player.current_slide, Unread("handle_renames"))
          /\ player'.next_slide =
                Remap(player.next_slide, Unread("handle_renames"))]_vars

\* a rename of the current slide that one of the slide store and the player
\* has applied and the other has not
RenameOfCurrentInFlight ==
    \E i \in 1..Len(events) :
        /\ events[i].kind = "Renamed"
        /\ player.current_slide \in {events[i].old, events[i].new}
        /\ (cursor["event_handler"] >= i) # (cursor["handle_renames"] >= i)

(* C5: while a rename of the current slide is being applied, no run of     *)
(* update_state or render finds current_slide unresolved, whatever the     *)
(* order of the systems.                                                   *)
C5_RenameNoFlicker ==
    [][((Step("update_state") \/ Step("render")) /\ RenameOfCurrentInFlight)
       => Found]_vars

(* C6: within a frame handle_renames runs before update_state, and          *)
(* update_state before render.                                             *)
C6_TickOrder ==
    [][/\ Step("handle_renames") => ("update_state" \notin ran /\ "render" \notin ran)
       /\ Step("update_state") => "render" \notin ran]_vars

(* C7: the update_state step on which FadeOutBg ends sets current_slide to *)
(* next_slide and bg_opacity to exactly 0 and enters FadeInBg with a fresh *)
(* timer; every other update_state step leaves current_slide alone.        *)
C7_SlideChange ==
    [][Step("update_state")
       => IF state.tag = "FadeOutBg" /\ state'.tag # "FadeOutBg"
          THEN /\ player'.current_slide = player.next_slide
               /\ player'.bg_opacity = Zero
               /\ state' = Phase("FadeInBg", TimerFromSeconds(BG_FADE_IN, FALSE))
          ELSE player'.current_slide = player.current_slide]_vars

\* C7 witness: the one gesture was the click, and the fade-out has brought
\* the player to the chosen slide
C7_Witness ==
    /\ inputs = MaxInputs - 1 /\ "update_state" \in ran
    /\ state = Phase("FadeInBg", TimerFromSeconds(BG_FADE_IN, FALSE))
    /\ player.current_slide = "Hall" /\ player.next_slide = "Hall"

(* C8: when FadeInText is entered for a slide with an empty description    *)
(* its timer has duration 0, and the first update_state step taken in      *)
(* FadeInText with that timer moves to PauseBetweenTextAndActions with     *)
(* percentage_of_text_shown exactly 1.                                     *)
C8_EmptyDescription ==
    [][(Step("update_state") /\ Found)
       => /\ (state.tag = "PauseBetweenBgAndText" /\ state'.tag = "FadeInText"
              /\ FindSlide(player.current_slide).description = "")
                => state'.timer = TimerFromSeconds(0, FALSE)
          /\ (state.tag = "FadeInText" /\ state.timer.duration = 0)
                => /\ state'.tag = "PauseBetweenTextAndActions"
                   /\ player'.percentage_of_text_shown = One]_vars

\* C8 witness: the one gesture was the click to the slide without text, and
\* its text fade-in is over
C8_Witness ==
    /\ inputs = MaxInputs - 1
    /\ player.current_slide = "Hall" /\ player.next_slide = "Hall"
    /\ Found /\ FindSlide("Hall").description = ""
    /\ state = Phase("PauseBetweenTextAndActions", TimerFromSeconds(pauses, FALSE))
    /\ player.percentage_of_text_shown = One

(* C9: as long as the phase stays FadeInText, percentage_of_text_shown     *)
(* does not decrease, and the update_state step that ends FadeInText       *)
(* leaves it at exactly 1.                                                 *)
C9_TextFadeInMonotone ==
    [][/\ (state.tag = "FadeInText" /\ state'.tag = "FadeInText")
            => Leq(player.percentage_of_text_shown, player'.percentage_of_text_shown)
       /\ (Step("update_state") /\ state.tag = "FadeInText"
           /\ state'.tag = "PauseBetweenTextAndActions")
            => player'.percentage_of_text_shown = One]_vars

\* C9 witness: part of the text is shown
C9_Witness ==
    /\ state.tag = "FadeInText"
    /\ player.percentage_of_text_shown # Zero
    /\ player.percentage_of_text_shown # One

(* C10: from the state in which the phase has become FadeOutTextAndActions *)
(* until FadeOutBg, percentage_of_text_shown and amount_of_actions_shown   *)
(* never increase, and both are exactly 0 when FadeOutBg is entered.       *)
C10_FadeOutMonotone ==
    [][/\ (state.tag = "FadeOutTextAndActions"
           /\ state'.tag \in {"FadeOutTextAndActions", "FadeOutBg"})
            => /\ Leq(player'.percentage_of_text_shown,
                      player.percentage_of_text_shown)
               /\ Leq(player'.amount_of_actions_shown,
                      player.amount_of_actions_shown)
       /\ (state.tag = "FadeOutTextAndActions" /\ state'.tag = "FadeOutBg")
            => /\ player'.percentage_of_text_shown = Zero
               /\ player'.amount_of_actions_shown = Zero]_vars

\* the three reveal fractions
Fractions(p) == <<p.bg_opacity, p.percentage_of_text_shown, p.amount_of_actions_shown>>

(* C11: after the current slide is deleted the display keeps the last good *)
(* content for exactly GRACE_TICKS render passes and degrades on the next: *)
(* a render pass that finds no current slide leaves the three texts as     *)
(* they are while it is at most the GRACE_TICKS-th such pass in a row, and *)
(* replaces them when it is the (GRACE_TICKS + 1)-th.                      *)
C11_GraceThenNotFound ==
    [][(Step("render") /\ missing_passes' = missing_passes + 1)
       => IF missing_passes' <= GRACE_TICKS
          THEN Shown(display') = Shown(display)
          ELSE Shown(display') # Shown(display)]_vars

(* C12: while current_slide names no slide, every update_state,            *)
(* handle_mouse and render step leaves the phase with its timer, the three *)
(* fractions, both slide names and the three texts unchanged and does not  *)
(* panic; and once the slide is found an update_state step of a later      *)
(* frame moves the phase or its timer on again (WaitingForInput aside,     *)
(* whose timer may wrap onto itself).                                      *)
C12_MissingSlideTolerated ==
    [][/\ ((Step("update_state") \/ Step("handle_mouse") \/ Step("render"))
           /\ ~Found)
            => /\ state' = state
               /\ Fractions(player') = Fractions(player)
               /\ player'.current_slide = player.current_slide
               /\ player'.next_slide = player.next_slide
               /\ Shown(display') = Shown(display)
               /\ ~crashed'
       /\ (Step("update_state") /\ Found /\ started
           /\ state.tag # "WaitingForInput")
            => state' # state]_vars

\* C12 witness: the current slide was deleted in the middle of the text
\* fade-in and render passes have since gone by without it
C12_Witness ==
    /\ ~Found /\ player.current_slide = "Living"
    /\ state.tag = "FadeInText"
    /\ missing_passes > GRACE_TICKS
    /\ display.description # "" /\ display.description # "Description"

(* C13: a click processed with hovering_action = Some(i) always finds i a  *)
(* valid index into the current slide's actions, and handle_mouse never    *)
(* panics.                                                                 *)
C13_ClickIndexValid ==
    [][(Step("handle_mouse") /\ Found /\ mouse_events'.click
        /\ player'.hovering_action # NoIndex)
       => /\ player'.hovering_action < Len(FindSlide(player.current_slide).actions)
          /\ ~crashed']_vars

(* C14: after handle_mouse has processed a pointer move at height y,       *)
(* hovering_action is None when no action lies within MIN_DISTANCE of y;   *)
(* otherwise it is an action within MIN_DISTANCE such that no action is    *)
(* strictly nearer and no equally near action has a lower index.           *)
C14_HoverNearest ==
    [][(Step("handle_mouse") /\ Found /\ mouse_events'.moves # <<>>)
       => LET y == mouse_events'.moves[Len(mouse_events'.moves)]
              n == Len(FindSlide(player.current_slide).actions)
              h == player'.hovering_action
          IN  IF \A i \in 0..(n - 1) : Distance(i, y) >= MIN_DISTANCE
              THEN h = NoIndex
              ELSE /\ h \in 0..(n - 1)
                   /\ Distance(h, y) < MIN_DISTANCE
                   /\ \A i \in 0..(n - 1) :
                         /\ Distance(i, y) >= Distance(h, y)
                         /\ Distance(i, y) = Distance(h, y) => h <= i]_vars

\* C14 witness: the pointer halfway between the two actions hovers the first
C14_Witness ==
    /\ "handle_mouse" \in ran /\ mouse_events.moves = <<-115>>
    /\ player.current_slide = "Living" /\ Found
    /\ Distance(0, -115) = Distance(1, -115)
    /\ player.hovering_action = 0

(* C15: hovering_action designates a visible choice only: whenever it is   *)
(* Some(i) and the current slide exists, i is below                        *)
(* floor(action_count * amount_of_actions_shown).                          *)
C15_HoverVisible ==
    (Found /\ player.hovering_action # NoIndex)
    => player.hovering_action <
          Scale(Len(FindSlide(player.current_slide).actions),
                player.amount_of_actions_shown)

(* C16: a click handled by handle_mouse or by the controls window while    *)
(* the phase is FadeOutTextAndActions or FadeOutBg leaves next_slide and   *)
(* the phase unchanged.                                                    *)
C16_ExitNotRestarted ==
    [][((Step("handle_mouse") \/ Step("render_controls"))
        /\ state.tag \in {"FadeOutTextAndActions", "FadeOutBg"})
       => (player'.next_slide = player.next_slide /\ state' = state)]_vars

(* C17: through the events and spawns the editor windows issue, no two    *)
(* slides ever have the same name.                                         *)
C17_UniqueNames ==
    \A e1, e2 \in Entities :
       (slides[e1] # NoSlide /\ slides[e2] # NoSlide
        /\ slides[e1].name = slides[e2].name) => e1 = e2

(* C18: current_slide changes only on the update_state step that ends      *)
(* FadeOutBg and on handle_renames steps; next_slide changes only on a     *)
(* click step (pointer or control button) and on handle_renames steps.     *)
C18_NameWriters ==
    [][/\ player'.current_slide # player.current_slide
            => \/ Step("update_state") /\ state.tag = "FadeOutBg"
                  /\ state'.tag = "FadeInBg"
               \/ Step("handle_renames")
       /\ player'.next_slide # player.next_slide
            => \/ (Step("handle_mouse") \/ Step("render_controls"))
                  /\ state'.tag = "GotInput"
               \/ Step("handle_renames")]_vars

(* C19: whenever the phase is WaitingForInput or GotInput the three        *)
(* fractions are all exactly 1.                                            *)
C19_FractionsPinned ==
    state.tag \in {"WaitingForInput", "GotInput"}
    => Fractions(player) = <<One, One, One>>

(* C20: whenever the phase is FadeInBg, percentage_of_text_shown and       *)
(* amount_of_actions_shown are both exactly 0.                             *)
C20_FadeInBgStartsHidden ==
    state.tag = "FadeInBg"
    => /\ player.percentage_of_text_shown = Zero
       /\ player.amount_of_actions_shown = Zero

\* C20 witness: FadeInBg of the second slide under way, entered after an
\* exit sequence that took every gesture
C20_Witness ==
    /\ state.tag = "FadeInBg" /\ state.timer.elapsed > 0
    /\ player.current_slide = "Hall"
    /\ inputs = 0

\* the phases between the two background fades
BgShownPhases ==
    {"PauseBetweenBgAndText", "FadeInText", "PauseBetweenTextAndActions",
     "FadeInActions", "WaitingForInput", "GotInput", "FadeOutTextAndActions"}

(* C21: bg_opacity is exactly 1 in every state whose phase lies between    *)
(* the two background fades, from PauseBetweenBgAndText to                 *)
(* FadeOutTextAndActions.                                                  *)
C21_BgOpacityPinned ==
    state.tag \in BgShownPhases => player.bg_opacity = One

\* a fraction of the closed interval [0, 1]
InUnit(f) == Leq(Zero, f) /\ Leq(f, One)

(* C22: in every reachable state the three fractions are numbers of the    *)
(* closed interval [0, 1], timers of duration zero included.               *)
C22_FractionsInUnit ==
    \A i \in 1..3 : InUnit(Fractions(player)[i])

\* C22 witness: the slide with no description and no action has been shown
\* up to the wait, through two fade-in timers of duration zero
C22_Witness ==
    /\ player.current_slide = "Hall" /\ Found
    /\ Len(FindSlide("Hall").description) = 0
    /\ Len(FindSlide("Hall").actions) = 0
    /\ state.tag = "WaitingForInput"

(* C26: once the phase is WaitingForInput an update_state step leaves it   *)
(* WaitingForInput, whatever the time elapsed, and changes neither a       *)
(* fraction nor a slide name; the phase is left only by a step that        *)
(* selects a choice.                                                       *)
C26_WaitIndefinitely ==
    [][/\ (state.tag = "WaitingForInput" /\ Step("update_state"))
            => /\ state'.tag = "WaitingForInput"
               /\ Fractions(player') = Fractions(player)
               /\ player'.current_slide = player.current_slide
               /\ player'.next_slide = player.next_slide
       /\ (state.tag = "WaitingForInput" /\ state'.tag # "WaitingForInput")
            => /\ ~Step("update_state")
               /\ state' = [tag |-> "GotInput", timer |-> NoTimer]]_vars

\* C26 witness: the wait has outlasted its timer's period and goes on
C26_Witness ==
    /\ state.tag = "WaitingForInput"
    /\ state.timer.finished
    /\ "update_state" \in ran

\* the phase GotInput hands over to, its timer not yet run
FadeOutArmed ==
    Phase("FadeOutTextAndActions", TimerFromSeconds(TEXT_FADE_OUT, FALSE))

(* C27 as stated: every update_state step taken while the phase is         *)
(* GotInput moves it to FadeOutTextAndActions with a fresh timer and       *)
(* changes no fraction and no slide name.                                  *)
C27_PassThroughAlways ==
    [][(Step("update_state") /\ state.tag = "GotInput")
       => /\ state' = FadeOutArmed
          /\ Fractions(player') = Fractions(player)
          /\ player'.current_slide = player.current_slide
          /\ player'.next_slide = player.next_slide]_vars

(* C27 amended: an update_state step taken while the phase is GotInput     *)
(* changes no fraction and no slide name; when it finds the current slide  *)
(* it moves the phase to FadeOutTextAndActions with a fresh timer, and     *)
(* when current_slide names no slide it leaves the phase GotInput.         *)
C27_PassThroughWhenFound ==
    [][(Step("update_state") /\ state.tag = "GotInput")
       => /\ state' = IF Found THEN FadeOutArmed ELSE state
          /\ Fractions(player') = Fractions(player)
          /\ player'.current_slide = player.current_slide
          /\ player'.next_slide = player.next_slide]_vars

\* C27 witness: a selection made during the wait has been handed over to
\* the fade-out by the next update_state step, the text still fully shown
C27_Witness ==
    /\ state = FadeOutArmed
    /\ "update_state" \in ran
    /\ Found
    /\ player.next_slide = "Hall"
    /\ player.percentage_of_text_shown = One

(* C28: before any system has run the phase is FadeInBg with an unstarted  *)
(* timer, current_slide and next_slide are both the start slide, the three *)
(* fractions are 0 and hovering_action is None.                            *)
C28_InitialState ==
    (~started /\ ran = {})
    => /\ state = Phase("FadeInBg", TimerFromSeconds(BG_FADE_IN, FALSE))
       /\ player.current_slide = "Living"
       /\ player.next_slide = "Living"
       /\ Fractions(player) = <<Zero, Zero, Zero>>
       /\ player.hovering_action = NoIndex

\* C28 witness: the state the program starts in
C28_Witness ==
    /\ ~started /\ ran = {}
    /\ state.tag = "FadeInBg" /\ state.timer.elapsed = 0
    /\ display = StartupDisplay

(* C30: an update_state step makes at most one phase transition, however   *)
(* large the delta: the phase stays or moves to the next of the cycle, and *)
(* a phase entered starts with a timer that has not run at all.            *)
C30_OneTransitionPerTick ==
    [][(Step("update_state") /\ state'.tag # state.tag)
       => /\ state'.tag = CycleNext(state.tag)
          /\ state'.tag # "GotInput"
          /\ state'.timer.elapsed = 0
          /\ ~state'.timer.finished]_vars

\* C30 witness: a delta longer than the whole background fade-in has ended
\* the fade-in and left the pause that follows untouched
C30_Witness ==
    /\ "update_state" \in ran /\ delta = 2000
    /\ state.tag = "PauseBetweenBgAndText"
    /\ state.timer.elapsed = 0

\* the step is a run of render in which the render timer fires
RenderPass == Step("render") /\ player'.render_timer.finished

\* a background of that name exists and its picture has not arrived
BackgroundPending(name) ==
    \E i \in BgEntities :
       /\ backgrounds[i] # NoBackground
       /\ backgrounds[i].name = name
       /\ ~backgrounds[i].has_data

(* C23: while the current slide exists and its background has no picture   *)
(* yet, every render pass still writes the description and the actions as  *)
(* the current fractions give them.                                        *)
C23_PendingBackgroundRefresh ==
    [][(RenderPass /\ Found
        /\ BackgroundPending(FindSlide(player.current_slide).background))
       => /\ display'.description =
                DescriptionText(player, FindSlide(player.current_slide))
          /\ display'.actions =
                ActionsText(player, FindSlide(player.current_slide))]_vars

(* C24: a render pass on a slide whose background exists without its       *)
(* picture gives a display outcome other than the one of a slide whose     *)
(* background name matches no background, which is the texts left as they  *)
(* are under the warning "background not found".                           *)
C24_PendingDistinctFromMissing ==
    [][(RenderPass /\ Found
        /\ BackgroundPending(FindSlide(player.current_slide).background))
       => display' # [display EXCEPT !.log = "background not found"]]_vars

\* the step ends a frame in which commands were queued
FrameEnds == commands # <<>> /\ commands' = <<>>

(* C25: receive_images takes every result off the channel without error;  *)
(* when the frame ends nothing has panicked, every result received is      *)
(* attached to each background that carried its url and is still there,    *)
(* and no other background has gained a picture.                           *)
C25_FetchResults ==
    [][/\ Step("receive_images") => (receiver' = <<>> /\ ~crashed')
       /\ FrameEnds
            => /\ ~crashed'
               /\ \A k \in 1..Len(commands) : \A i \in BgEntities :
                     (/\ commands[k].op = "insert_data"
                      /\ i \in commands[k].entities
                      /\ backgrounds'[i] # NoBackground)
                     => backgrounds'[i].has_data
               /\ \A i \in BgEntities :
                     (/\ backgrounds[i] # NoBackground
                      /\ backgrounds'[i] # NoBackground
                      /\ ~backgrounds[i].has_data
                      /\ backgrounds'[i].has_data)
                     => \E k \in 1..Len(commands) :
                           /\ commands[k].op = "insert_data"
                           /\ commands[k].url = backgrounds[i].url]_vars

\* the background of the current slide, as render finds it
CurrentBackground == FindBackground(FindSlide(player.current_slide).background)

(* C29: a render pass that converts the background at opacity 0 writes a   *)
(* grid whose every cell is the lowest-intensity character, whatever the   *)
(* pixels and the weighting of the channels; at opacity 1 it writes for    *)
(* each pixel the character of the pixel's own intensity.                  *)
C29_OpacityEnds ==
    [][(RenderPass /\ display'.log = "rendered")
       => LET bg == CurrentBackground
          IN  /\ player.bg_opacity = Zero
                   => display'.background =
                         Concat([i \in 1..Len(bg.data) |->
                                   Repeat(ASCII_CHARS[1], Len(bg.data[i])) \o "\n"])
              /\ player.bg_opacity = One
                   => display'.background =
                         Concat([i \in 1..Len(bg.data) |->
                                   Concat([j \in 1..Len(bg.data[i]) |->
                                             IntensityToAscii(
                                                PixelToIntensity(bg, bg.data[i][j]))])
                                   \o "\n"])]_vars

\* C29 witness: a picture with a bright pixel, weighted by unequal channels,
\* has been converted at opacity 0 into a blank grid
C29_Witness ==
    /\ display.log = "rendered"
    /\ player.bg_opacity = Zero
    /\ "render" \in ran
    /\ backgrounds[1].color_channels = <<2, 1, 0>>
    /\ backgrounds[1].data[1][2] = <<255, 255, 255>>
    /\ display.background = "..\n"

(* C31: left alone with frames that keep coming, the player that is in     *)
(* FadeInBg on an existing slide reaches WaitingForInput, whatever the     *)
(* length of the description and the number of actions, none included.     *)
C31_ReachesWait ==
    (state.tag = "FadeInBg" /\ Found) ~> (state.tag = "WaitingForInput")

\* C31 witness: the wait reached on a slide with no description and no
\* action, both fade-ins having run on timers of no duration
C31_Witness ==
    /\ state.tag = "WaitingForInput"
    /\ FindSlide(player.current_slide).description = ""
    /\ FindSlide(player.current_slide).actions = <<>>
    /\ player.percentage_of_text_shown = One
    /\ player.amount_of_actions_shown = One

\* an action with target T has just been selected with everything on show,
\* as it is during the wait
Chosen(T) ==
    /\ state.tag = "GotInput"
    /\ player.next_slide = T
    /\ Found
    /\ Fractions(player) = <<One, One, One>>

(* C32: once an action with target T has been selected during the wait and *)
(* frames keep coming, the player reaches FadeInBg with current_slide = T,  *)
(* unless the current slide stops existing on the way; clicks and renames  *)
(* that arrive during the exit do not prevent it.                          *)
C32_ChoiceArrives ==
    \A T \in Names :
        Chosen(T) ~> ((state.tag = "FadeInBg" /\ player.current_slide = T) \/ ~Found)

\* the newest notification is Renamed(old, new) and both CrudPlugin's
\* event_handler and update_references have processed it
RenameProcessed(old, new) ==
    /\ events # <<>>
    /\ events[Len(events)] = Renamed(old, new)
    /\ cursor["event_handler"] = Len(events)
    /\ cursor["update_references"] = Len(events)

(* C33: once Renamed(old, new) has been processed, the link structure is   *)
(* the one before under the new name: no slide is named old any more and   *)
(* no action targets old, every action that targeted old targeting new.    *)
C33_RenameKeepsLinks ==
    \A old \in Names : \A new \in Names \ {old} :
        RenameProcessed(old, new) =>
            \A e \in Entities :
                slides[e] # NoSlide =>
                    /\ slides[e].name # old
                    /\ \A i \in 1..Len(slides[e].actions) :
                          slides[e].actions[i].target_slide # old

\* the step queues the despawn of editor k
Closes(k) ==
    \E i \in (Len(commands) + 1)..Len(commands') :
        commands'[i] = [op |-> "despawn_editor", id |-> k]

\* the despawn of editor k is queued
Closing(k) ==
    \E i \in 1..Len(commands) : commands[i] = [op |-> "despawn_editor", id |-> k]

\* the passes of SlideEditor::render that have found editor k's slide missing
MissedPasses(k) == GRACE_TICKS - editors[k].ttl

Deletes(e) ==
    /\ commands' = <<>>
    /\ \E i \in 1..Len(commands) :
          commands[i].op = "despawn" /\ e \in commands[i].entities

\* among the slides sl no slide carries the name and some action targets it
Dangling(sl, name) ==
    /\ \A x \in Entities : sl[x] # NoSlide => sl[x].name # name
    /\ \E x \in Entities :
          /\ sl[x] # NoSlide
          /\ \E i \in 1..Len(sl[x].actions) : sl[x].actions[i].target_slide = name

(* C34: when a slide is despawned on a Deleted sent by the delete dialog,   *)
(* no action of a remaining slide is left targeting its name: the deletion  *)
(* makes no link dangle.                                                    *)
C34_DeleteKeepsLinks ==
    [][\A e \in Entities :
          (slides[e] # NoSlide /\ Deletes(e))
              => ~Dangling(slides', slides[e].name)]_vars

\* a command of the kind op is queued for background i
Queued(cmds, op, i) ==
    \E k \in 1..Len(cmds) : cmds[k].op = op /\ i \in cmds[k].entities

\* background i is there and carries no Requested marker
Unmarked(i) == backgrounds[i] # NoBackground /\ ~backgrounds[i].requested

(* C37: a fetch is started only by auto_request_images, one for each        *)
(* background that carries no marker, and each of them is queued for        *)
(* marking; at the end of the frame it carries the marker unless it is gone *)
(* or a refresh was queued too; and a marker once set is taken off only by  *)
(* a queued refresh.  So between two fetches for one background lies a      *)
(* refresh.                                                                 *)
C37_OneRequestPerMarking ==
    [][/\ \A u \in Urls :
             workers'[u] > workers[u]
                => /\ Step("auto_request_images")
                   /\ workers'[u] - workers[u] =
                         Cardinality({i \in BgEntities :
                                         Unmarked(i) /\ backgrounds[i].url = u})
       /\ Step("auto_request_images")
             => \A i \in BgEntities :
                   Unmarked(i) => Queued(commands', "insert_requested", i)
       /\ \A i \in BgEntities :
             /\ (/\ FrameEnds
                 /\ Queued(commands, "insert_requested", i)
                 /\ ~Queued(commands, "remove_requested", i))
                   => \/ crashed'
                      \/ backgrounds'[i] = NoBackground
                      \/ backgrounds'[i].requested
             /\ (/\ backgrounds[i] # NoBackground
                 /\ backgrounds[i].requested
                 /\ backgrounds'[i] # NoBackground
                 /\ ~backgrounds'[i].requested)
                   => FrameEnds /\ Queued(commands, "remove_requested", i)]_vars

\* C37 witness: after a refresh took the marker off a background that has
\* its picture, auto_request_images has started a second fetch for it
C37_Witness ==
    \E i \in BgEntities :
        /\ Unmarked(i)
        /\ backgrounds[i].has_data
        /\ Queued(commands, "insert_requested", i)
        /\ workers[backgrounds[i].url] > 0

(* C36: while slides are renamed and none is deleted, no step queues the   *)
(* despawn of an open editor, however many renames its slide goes through  *)
(* and in whatever order the systems of a frame run.                       *)
C36_RenameKeepsEditor ==
    [][\A k \in EditorIds : editors[k] # NoEditor => ~Closes(k)]_vars

====
